---------------------------- MODULE Spec2Model ----------------------------
(***************************************************************************)
(* A model of led_party's audio-reactive choreography core:                *)
(*   - AutoLoopsEngine (src/autoloops.py): beat grid, energy tiers,        *)
(*     structural detectors, section state machine, effect selection;      *)
(*   - AudioBeatDetector (src/audiosync.py): refractory beat registration, *)
(*     pairwise-lag tempo estimate, lock hysteresis, capture queue.        *)
(*                                                                         *)
(* Numbers.  The code computes in floats; the model computes in integers:  *)
(*   energies (rms, band energies, onset strength) in millionths,          *)
(*   time in milliseconds, per-beat periods in 1/100 ms, tempo in 1/100    *)
(*   BPM.  Every threshold comparison is cross-multiplied so that it is    *)
(*   decided exactly on the integers; an EMA is rounded down to a          *)
(*   millionth at each step.                                               *)
(***************************************************************************)
EXTENDS Integers, Sequences, FiniteSets, TLC

VARIABLES
    eng,        \* the AutoLoopsEngine instance (a record of its fields)
    calls,      \* lighting-sink calls issued by the engine's last operation
    lastOp,     \* name of the engine operation that produced this state
    nBeats,     \* on_beat calls made so far in this run (bounded)
    nOps,       \* control-surface calls made so far (bounded)
    track,      \* the shape of the track being played (an index of TrackShapes)
    seg,        \* the segment of that shape the track is in
    raised,     \* the exception the engine's last operation ended with, or "none"
    seen        \* what the last on_beat saw: [tier, high_run, bar_pos,
                \* is_downbeat, phrase]: the tier its first _energy_tier() call
                \* returned, for how many on_beat calls in a row up to it that
                \* tier was HIGH (6: 6 or more), and its grid tick

engineVars == <<eng, calls, lastOp, nBeats, nOps, track, seg, raised, seen>>

-----------------------------------------------------------------------------
(* Generic helpers *)

Min(a, b) == IF a < b THEN a ELSE b
Max(a, b) == IF a > b THEN a ELSE b
Abs(a) == IF a < 0 THEN -a ELSE a

RECURSIVE SumSeq(_)
SumSeq(s) == IF s = <<>> THEN 0 ELSE Head(s) + SumSeq(Tail(s))

\* Python slice s[-n:] (the last n elements; all of s when it is shorter)
LastN(s, n) == IF Len(s) <= n THEN s ELSE SubSeq(s, Len(s) - n + 1, Len(s))

\* deque(maxlen=cap).append(x): the oldest element is evicted when full
DequeAppend(s, x, cap) == LastN(Append(s, x), cap)

\* mean(xs) of autoloops.py: 0.0 on an empty list
mean(xs) == IF xs = <<>> THEN 0 ELSE SumSeq(xs) \div Len(xs)

-----------------------------------------------------------------------------
(* Enumerations and tables of autoloops.py *)

LOW == 1
MED == 2
HIGH == 3
NoTier == 0      \* _manual_tier is None

Sections == {"VERSE", "BUILD", "CHORUS", "DROP", "BREAKDOWN"}

SECTION_EFFECTS(section) ==
    CASE section = "VERSE"     -> <<"COLOR_WASH", "SOFT_PULSE", "SINGLE_SPOT">>
      [] section = "BUILD"     -> <<"AB_CHASE", "STROBE_RAMP", "COLOR_RISE">>
      [] section = "CHORUS"    -> <<"AB_ALTERNATE", "DOWNBEAT_BLAST", "STROBE_SPLIT",
                                    "BEAT_CYCLE", "AB_COMPLEMENT">>
      [] section = "DROP"      -> <<"BLACKOUT_BLAST", "DROP_STROBE">>
      [] section = "BREAKDOWN" -> <<"SLOW_BREATHE", "FADE_WALK">>
      [] OTHER                 -> <<>>

MIN_SECTION_BEATS(section) ==
    CASE section = "VERSE"     -> 8
      [] section = "BUILD"     -> 8
      [] section = "CHORUS"    -> 12
      [] section = "DROP"      -> 6
      [] section = "BREAKDOWN" -> 8
      [] OTHER                 -> 8

PRESET_NAMES == {"Beat: White Flash", "Beat: Palette Cycle",
                 "Beat: Alternate Base/Alt", "Beat: Downbeat Rainbow"}

STYLES == {"House", "EDM", "Hip-Hop", "Chill"}

PALETTES(name) ==
    CASE name = "ND"    -> << <<12, 36, 150>>, <<255, 200, 0>>, <<255, 255, 255>> >>
      [] name = "Warm"  -> << <<255, 120, 0>>, <<255, 180, 120>>, <<255, 40, 0>>, <<255, 255, 255>> >>
      [] name = "Cool"  -> << <<0, 180, 255>>, <<0, 255, 150>>, <<0, 80, 255>>, <<255, 255, 255>> >>
      [] name = "Neon"  -> << <<255, 0, 255>>, <<0, 255, 255>>, <<255, 0, 120>>, <<255, 255, 255>> >>
      [] name = "Fire"  -> << <<255, 0, 0>>, <<255, 80, 0>>, <<255, 160, 0>>, <<255, 255, 100>> >>
      [] name = "Ocean" -> << <<0, 30, 180>>, <<0, 120, 255>>, <<0, 200, 200>>, <<150, 220, 255>> >>
      [] name = "UV"    -> << <<100, 0, 255>>, <<180, 0, 255>>, <<255, 0, 200>>, <<255, 100, 255>> >>

PALETTE_NAMES == {"ND", "Warm", "Cool", "Neon", "Fire", "Ocean", "UV"}

BAR_LEN == 4
PHRASE_BARS == 8
HIST_LEN == 32       \* maxlen of _fast_hist, _high_hist, _bass_hist
BPM_HIST_LEN == 8    \* maxlen of _bpm_hist

-----------------------------------------------------------------------------
(* AutoLoopsEngine.__init__ *)

\* The fields reset_music_context() re-initialises
FreshMusicContext ==
    [ beat |-> 0,
      ema_fast |-> 0, ema_med |-> 0, ema_long |-> 0,
      fast_hist |-> <<>>, bpm_hist |-> <<>>,
      high_ema |-> 0, bass_ema |-> 0,
      high_hist |-> <<>>, bass_hist |-> <<>>,
      high_avg |-> 0, bass_avg |-> 0,
      onset_ema |-> 0,
      tier |-> LOW, tier_hold |-> 0, tier_beats |-> 0,
      section |-> "VERSE", section_beats |-> 0,
      effect |-> "COLOR_WASH", fx_beat |-> 0, fx_dur |-> 16,
      cooldown |-> 0, in_vendor_mode |-> FALSE,
      pi |-> 0,
      c_build |-> FALSE, c_breakdown |-> FALSE, c_drop |-> FALSE ]

\* The fields only __init__ and the control surface set
FreshSettings ==
    [ style |-> "House", palette_name |-> "ND",
      manual_tier |-> NoTier,
      preset_active |-> FALSE, preset_name |-> "",
      sensitivity_scale |-> 100,       \* in percent: 1.0
      prev_section |-> "VERSE" ]

Merge(r1, r2) ==
    [f \in (DOMAIN r1) \cup (DOMAIN r2) |-> IF f \in DOMAIN r2 THEN r2[f] ELSE r1[f]]

EngineInit == Merge(FreshSettings, FreshMusicContext)


-----------------------------------------------------------------------------
(* BeatEvent values fed to on_beat: [bpm, rms, high, bass, onset] *)

\* _update_energy(rms, high, bass, onset)
update_energy(e, ev) ==
    LET first == (e.ema_fast = 0)
        fast  == IF first THEN ev.rms ELSE (55 * e.ema_fast + 45 * ev.rms) \div 100
        med   == IF first THEN ev.rms ELSE (90 * e.ema_med  + 10 * ev.rms) \div 100
        long  == IF first THEN ev.rms ELSE (97 * e.ema_long +  3 * ev.rms) \div 100
        hema  == IF ev.high > 0 THEN (80 * e.high_ema + 20 * ev.high) \div 100 ELSE e.high_ema
        hhist == IF ev.high > 0 THEN DequeAppend(e.high_hist, hema, HIST_LEN) ELSE e.high_hist
        bema  == IF ev.bass > 0 THEN (80 * e.bass_ema + 20 * ev.bass) \div 100 ELSE e.bass_ema
        bhist == IF ev.bass > 0 THEN DequeAppend(e.bass_hist, bema, HIST_LEN) ELSE e.bass_hist
    IN  [e EXCEPT !.ema_fast = fast, !.ema_med = med, !.ema_long = long,
                  !.fast_hist = DequeAppend(e.fast_hist, fast, HIST_LEN),
                  !.high_ema = hema, !.high_hist = hhist,
                  !.bass_ema = bema, !.bass_hist = bhist,
                  !.high_avg = mean(hhist), !.bass_avg = mean(bhist),
                  !.onset_ema = IF ev.onset > 0
                                THEN (70 * e.onset_ema + 30 * ev.onset) \div 100
                                ELSE e.onset_ema]

-----------------------------------------------------------------------------
(* Energy tier (with hysteresis) *)

\* A classifier with the one threshold 0.045 / s: LOW below it, HIGH above
RawTier_single_threshold(e) ==
    IF e.ema_fast * e.sensitivity_scale < 45000 * 100 THEN LOW ELSE HIGH

\* The raw classification of _energy_tier: ratio = (fast + 1e-6) / (med + 1e-6),
\* lo = 0.045 / s, hi = 0.065 / s, with s = sensitivity_scale / 100
RawTier(e) ==
    LET f == e.ema_fast
        m == e.ema_med
        s == e.sensitivity_scale
    IN  IF f * s < 45000 * 100 \/ (f + 1) * 100 < 90 * (m + 1) THEN LOW
        ELSE IF f * s > 65000 * 100 \/ (f + 1) * 100 > 115 * (m + 1) THEN HIGH
        ELSE MED

\* A classifier whose hysteresis goes on under a manual tier
energy_tier_runs_under_manual(e) ==
    IF e.tier_hold > 0 THEN [e EXCEPT !.tier_hold = @ - 1]
    ELSE IF RawTier(e) # e.tier
         THEN IF RawTier(e) > e.tier
              THEN [e EXCEPT !.tier = RawTier(e), !.tier_hold = 2, !.tier_beats = 0]
              ELSE [e EXCEPT !.tier = RawTier(e), !.tier_hold = 3, !.tier_beats = 0]
         ELSE [e EXCEPT !.tier_beats = @ + 1]

\* One call of _energy_tier(): the engine after the call
energy_tier(e) ==
    IF e.manual_tier # NoTier THEN e
    ELSE IF e.tier_hold > 0 THEN [e EXCEPT !.tier_hold = @ - 1]
    ELSE IF RawTier(e) # e.tier
         THEN IF RawTier(e) > e.tier
              THEN [e EXCEPT !.tier = RawTier(e), !.tier_hold = 2, !.tier_beats = 0]
              ELSE [e EXCEPT !.tier = RawTier(e), !.tier_hold = 3, !.tier_beats = 0]
         ELSE [e EXCEPT !.tier_beats = @ + 1]

\* The value that call returns, read off the engine after the call
TierOf(e) == IF e.manual_tier # NoTier THEN e.manual_tier ELSE e.tier

-----------------------------------------------------------------------------
(* Musical-structure detectors *)

\* The five conditions of _detect_drop, on h = the last 16 entries of
\* _fast_hist (an engine with at least 16 of them)
\* h[7] > h[0] * 1.08
buildup(e) ==
    LET h == LastN(e.fast_hist, 16) IN 100 * h[8] > 108 * h[1]

\* mean(h[-4:-1]) < mean(h[:-4]) * 0.85
predrop_dip(e) ==
    LET h == LastN(e.fast_hist, 16)
    IN  80 * SumSeq(SubSeq(h, 13, 15)) < 17 * SumSeq(SubSeq(h, 1, 12))

\* h[-1] > mean(h[:-1]) * 1.3
spike(e) ==
    LET h == LastN(e.fast_hist, 16)
    IN  150 * h[16] > 13 * SumSeq(SubSeq(h, 1, 15))

bass_ok(e) == e.bass_avg < 5000 \/ 2 * e.bass_ema > 3 * e.bass_avg

strong_hit(e) == e.onset_ema > 800000

detect_drop(e) ==
    IF Len(e.fast_hist) < 16 \/ e.beat < 16 THEN FALSE
    ELSE (buildup(e) /\ predrop_dip(e) /\ spike(e) /\ bass_ok(e))
         \/ (buildup(e) /\ spike(e) /\ strong_hit(e) /\ bass_ok(e))

\* A build detector that looks at whatever history there is from 8 entries on
detect_build_from_8(e) ==
    IF Len(e.fast_hist) < 8 THEN FALSE
    ELSE LET h == LastN(e.fast_hist, 12)
             d == h[Len(h)] - h[1]
             rising  == d > 33000 /\ 100 * h[Len(h)] > 112 * h[1]
             high_up == e.high_avg > 10000 /\ 10 * e.high_ema > 13 * e.high_avg
             floor   == e.ema_fast * e.sensitivity_scale > 45000 * 100
         IN  rising /\ floor /\ (high_up \/ d > 66000)

detect_build(e) ==
    IF Len(e.fast_hist) < 12 THEN FALSE
    ELSE LET h == LastN(e.fast_hist, 12)
             d == h[12] - h[1]                       \* 11 * slope
             rising  == d > 33000 /\ 100 * h[12] > 112 * h[1]
             high_up == e.high_avg > 10000 /\ 10 * e.high_ema > 13 * e.high_avg
             floor   == e.ema_fast * e.sensitivity_scale > 45000 * 100
         IN  rising /\ floor /\ (high_up \/ d > 66000)

detect_breakdown(e) ==
    IF Len(e.fast_hist) < 20 THEN FALSE
    ELSE LET h == LastN(e.fast_hist, 20)
             prev12   == SumSeq(SubSeq(h, 1, 12))    \* 12 * prev
             recent8  == SumSeq(SubSeq(h, 13, 20))   \* 8 * recent
             active   == prev12 * e.sensitivity_scale > 35000 * 100 * 12
         IN  active /\ 30 * recent8 < 11 * prev12

-----------------------------------------------------------------------------
(* Effect selection *)

default_duration(section) == IF section = "DROP" THEN BAR_LEN * 2 ELSE BAR_LEN * 4

RECURSIVE Without(_, _)
Without(s, x) ==
    IF s = <<>> THEN <<>>
    ELSE IF Head(s) = x THEN Without(Tail(s), x)
    ELSE <<Head(s)>> \o Without(Tail(s), x)

\* The effects random.choices draws from: the section's catalogue without the
\* current effect, or the whole catalogue if that leaves nothing.  Every style
\* weight is positive, so each of them can be drawn.
Available(e, section) ==
    LET base == SECTION_EFFECTS(section)
        rest == Without(base, e.effect)
    IN  IF rest = <<>> THEN base ELSE rest

\* A draw from the whole catalogue of the section
pick_effect_may_repeat(e, section, rnd) ==
    LET base == SECTION_EFFECTS(section)
    IN  IF base = <<>> THEN e
        ELSE [e EXCEPT !.effect = base[((rnd - 1) % Len(base)) + 1],
                       !.fx_beat = 0,
                       !.fx_dur = default_duration(section),
                       !.pi = @ + 1,
                       !.in_vendor_mode = FALSE]

\* A draw after which the new effect counts its first beat as done
pick_effect_from_one(e, section, rnd) ==
    LET av == Available(e, section)
    IN  IF SECTION_EFFECTS(section) = <<>> THEN e
        ELSE [e EXCEPT !.effect = av[((rnd - 1) % Len(av)) + 1],
                       !.fx_beat = 1,
                       !.fx_dur = default_duration(section),
                       !.pi = @ + 1,
                       !.in_vendor_mode = FALSE]

\* _pick_effect(section); rnd is the random draw, reduced to an index
pick_effect(e, section, rnd) ==
    LET av == Available(e, section)
    IN  IF SECTION_EFFECTS(section) = <<>> THEN e
        ELSE [e EXCEPT !.effect = av[((rnd - 1) % Len(av)) + 1],
                       !.fx_beat = 0,
                       !.fx_dur = default_duration(section),
                       !.pi = @ + 1,
                       !.in_vendor_mode = FALSE]

\* A section change that keeps the effect that was running
transition_keeps_effect(e, new, rnd) ==
    [e EXCEPT !.prev_section = e.section, !.section = new, !.section_beats = 0]

\* _transition_section(new)
transition_section(e, new, rnd) ==
    pick_effect([e EXCEPT !.prev_section = e.section,
                          !.section = new,
                          !.section_beats = 0], new, rnd)

-----------------------------------------------------------------------------
(* Section state machine *)

\* A variant of the section choice that tests the build condition before the
\* drop condition
NextSection_BuildFirst(e) ==
    LET tier == TierOf(e)
    IN  IF e.c_build /\ e.section # "DROP" /\ tier # LOW THEN "BUILD"
        ELSE IF e.c_drop /\ e.cooldown = 0 /\ e.section # "DROP" THEN "DROP"
        ELSE IF tier = HIGH /\ e.tier_beats >= 6 /\ ~(e.section = "DROP" /\ e.section_beats < 8)
             THEN "CHORUS"
        ELSE e.section

\* A variant of the section choice whose CHORUS rule does not let a drop play out
NextSection_chorus_cuts_drop(e) ==
    LET tier  == TierOf(e)
        r     == LastN(e.fast_hist, 8)
        neg   == Len(e.fast_hist) >= 8 /\ r[8] < r[1]
        sb    == e.section_beats
        mn    == MIN_SECTION_BEATS(e.section)
    IN  IF e.c_drop /\ e.cooldown = 0 /\ e.section # "DROP" THEN "DROP"
        ELSE IF e.c_build /\ e.section # "DROP" /\ tier # LOW THEN "BUILD"
        ELSE IF tier = HIGH /\ e.tier_beats >= 6 THEN "CHORUS"
        ELSE IF e.section \in {"CHORUS", "DROP"} /\ sb >= mn
             THEN IF tier # HIGH /\ neg THEN "BREAKDOWN" ELSE e.section
        ELSE IF tier \in {LOW, MED} /\ sb >= mn
             THEN IF e.section = "BREAKDOWN" /\ sb >= 8 THEN "VERSE"
                  ELSE IF e.section = "BUILD" /\ tier = LOW THEN "VERSE"
                  ELSE e.section
        ELSE e.section

\* A variant of the section choice whose BUILD rule also applies in DROP
NextSection_build_from_drop(e) ==
    LET tier  == TierOf(e)
        r     == LastN(e.fast_hist, 8)
        neg   == Len(e.fast_hist) >= 8 /\ r[8] < r[1]
        sb    == e.section_beats
        mn    == MIN_SECTION_BEATS(e.section)
    IN  IF e.c_drop /\ e.cooldown = 0 /\ e.section # "DROP" THEN "DROP"
        ELSE IF e.c_build /\ tier # LOW THEN "BUILD"
        ELSE IF tier = HIGH /\ e.tier_beats >= 6
             THEN IF e.section = "DROP" /\ sb < 8 THEN e.section ELSE "CHORUS"
        ELSE IF e.section \in {"CHORUS", "DROP"} /\ sb >= mn
             THEN IF tier # HIGH /\ neg THEN "BREAKDOWN" ELSE e.section
        ELSE IF tier \in {LOW, MED} /\ sb >= mn
             THEN IF e.section = "BREAKDOWN" /\ sb >= 8 THEN "VERSE"
                  ELSE IF e.section = "BUILD" /\ tier = LOW THEN "VERSE"
                  ELSE e.section
        ELSE e.section

\* A variant of the section choice whose DROP rule does not look at the cooldown
NextSection_ignores_cooldown(e) ==
    LET tier  == TierOf(e)
        r     == LastN(e.fast_hist, 8)
        neg   == Len(e.fast_hist) >= 8 /\ r[8] < r[1]
        sb    == e.section_beats
        mn    == MIN_SECTION_BEATS(e.section)
    IN  IF e.c_drop /\ e.section # "DROP" THEN "DROP"
        ELSE IF e.c_build /\ e.section # "DROP" /\ tier # LOW THEN "BUILD"
        ELSE IF tier = HIGH /\ e.tier_beats >= 6
             THEN IF e.section = "DROP" /\ sb < 8 THEN e.section ELSE "CHORUS"
        ELSE IF e.section \in {"CHORUS", "DROP"} /\ sb >= mn
             THEN IF tier # HIGH /\ neg THEN "BREAKDOWN" ELSE e.section
        ELSE IF tier \in {LOW, MED} /\ sb >= mn
             THEN IF e.section = "BREAKDOWN" /\ sb >= 8 THEN "VERSE"
                  ELSE IF e.section = "BUILD" /\ tier = LOW THEN "VERSE"
                  ELSE e.section
        ELSE e.section

\* A variant of the section choice without the minimum dwell of a section
NextSection_no_dwell(e) ==
    LET tier  == TierOf(e)
        r     == LastN(e.fast_hist, 8)
        neg   == Len(e.fast_hist) >= 8 /\ r[8] < r[1]
    IN  IF e.c_drop /\ e.cooldown = 0 /\ e.section # "DROP" THEN "DROP"
        ELSE IF e.c_build /\ e.section # "DROP" /\ tier # LOW THEN "BUILD"
        ELSE IF tier = HIGH /\ e.tier_beats >= 6 THEN "CHORUS"
        ELSE IF e.section \in {"CHORUS", "DROP"}
             THEN IF tier # HIGH /\ neg THEN "BREAKDOWN" ELSE e.section
        ELSE IF tier \in {LOW, MED}
             THEN IF e.section = "BREAKDOWN" THEN "VERSE"
                  ELSE IF e.section = "BUILD" /\ tier = LOW THEN "VERSE"
                  ELSE e.section
        ELSE e.section

\* A section choice that enters BREAKDOWN on the breakdown detector's flag
NextSection_on_breakdown_flag(e) ==
    LET tier  == TierOf(e)
        r     == LastN(e.fast_hist, 8)
        neg   == Len(e.fast_hist) >= 8 /\ r[8] < r[1]
        sb    == e.section_beats
        mn    == MIN_SECTION_BEATS(e.section)
    IN  IF e.c_drop /\ e.cooldown = 0 /\ e.section # "DROP" THEN "DROP"
        ELSE IF e.c_build /\ e.section # "DROP" /\ tier # LOW THEN "BUILD"
        ELSE IF e.c_breakdown /\ e.section # "BREAKDOWN" THEN "BREAKDOWN"
        ELSE IF tier = HIGH /\ e.tier_beats >= 6
             THEN IF e.section = "DROP" /\ sb < 8 THEN e.section ELSE "CHORUS"
        ELSE IF e.section \in {"CHORUS", "DROP"} /\ sb >= mn
             THEN IF tier # HIGH /\ neg THEN "BREAKDOWN" ELSE e.section
        ELSE IF tier \in {LOW, MED} /\ sb >= mn
             THEN IF e.section = "BREAKDOWN" /\ sb >= 8 THEN "VERSE"
                  ELSE IF e.section = "BUILD" /\ tier = LOW THEN "VERSE"
                  ELSE e.section
        ELSE e.section

\* The section _update_section chooses, given the tier its _energy_tier() call
\* returned (e is the engine after that call)
NextSection(e) ==
    LET tier  == TierOf(e)
        r     == LastN(e.fast_hist, 8)
        neg   == Len(e.fast_hist) >= 8 /\ r[8] < r[1]      \* slope < 0
        sb    == e.section_beats
        mn    == MIN_SECTION_BEATS(e.section)
    IN  IF e.c_drop /\ e.cooldown = 0 /\ e.section # "DROP" THEN "DROP"
        ELSE IF e.c_build /\ e.section # "DROP" /\ tier # LOW THEN "BUILD"
        ELSE IF tier = HIGH /\ e.tier_beats >= 6
             THEN IF e.section = "DROP" /\ sb < 8 THEN e.section ELSE "CHORUS"
        ELSE IF e.section \in {"CHORUS", "DROP"} /\ sb >= mn
             THEN IF tier # HIGH /\ neg THEN "BREAKDOWN" ELSE e.section
        ELSE IF tier \in {LOW, MED} /\ sb >= mn
             THEN IF e.section = "BREAKDOWN" /\ sb >= 8 THEN "VERSE"
                  ELSE IF e.section = "BUILD" /\ tier = LOW THEN "VERSE"
                  ELSE e.section
        ELSE e.section

update_section(e0, rnd) ==
    LET e   == energy_tier(e0)
        new == NextSection(e)
    IN  IF new # e.section THEN transition_section(e, new, rnd)
        ELSE [e EXCEPT !.section_beats = @ + 1]

-----------------------------------------------------------------------------
(* Colour and speed helpers; a lighting-sink call is <<name, x, y, z>> *)

MODE_STROBE_RAINBOW == 48     \* 0x30
MODE_STROBE_WHITE   == 55     \* 0x37
MODE_PULSE_RED      == 38     \* 0x26
MODE_PULSE_GREEN    == 39     \* 0x27
MODE_PULSE_BLUE     == 40     \* 0x28
MODE_PULSE_YELLOW   == 41     \* 0x29
MODE_PULSE_CYAN     == 42     \* 0x2A
MODE_PULSE_PURPLE   == 43     \* 0x2B
MODE_PULSE_WHITE    == 44     \* 0x2C

BASE_COLOR == <<255, 255, 255>>
ALT_COLOR  == <<12, 36, 150>>
BLACK      == <<0, 0, 0>>
WHITE      == <<255, 255, 255>>

\* Python's round() of num/den (num >= 0, den > 0): half to even
RoundHalfEven(num, den) ==
    LET q == num \div den
        r == num % den
    IN  IF 2 * r < den THEN q
        ELSE IF 2 * r > den THEN q + 1
        ELSE IF q % 2 = 0 THEN q ELSE q + 1

\* A speed that is rounded but not clamped
speed_for_bpm_unclamped(bpm, intensity10) ==
    IF bpm <= 0 THEN 20
    ELSE RoundHalfEven(600 * 100 * 10, bpm * intensity10)

\* speed_for_bpm(bpm, intensity): bpm in 1/100 BPM, intensity in tenths
speed_for_bpm(bpm, intensity10) ==
    IF bpm <= 0 THEN 20
    ELSE Max(2, Min(100, RoundHalfEven(600 * 100 * 10, bpm * intensity10)))

nearest_pulse_mode(c) ==
    LET r == c[1]
        g == c[2]
        b == c[3]
    IN  IF r > 220 /\ g > 220 /\ b > 220 THEN MODE_PULSE_WHITE
        ELSE IF r > 200 /\ g > 200 /\ b < 80 THEN MODE_PULSE_YELLOW
        ELSE IF g > 200 /\ b > 200 /\ r < 80 THEN MODE_PULSE_CYAN
        ELSE IF r > 200 /\ b > 200 /\ g < 80 THEN MODE_PULSE_PURPLE
        ELSE IF r >= g /\ r >= b THEN MODE_PULSE_RED
        ELSE IF g >= r /\ g >= b THEN MODE_PULSE_GREEN
        ELSE MODE_PULSE_BLUE

complement(c) == <<255 - c[1], 255 - c[2], 255 - c[3]>>

\* dim(c, num/den): int(c * factor), on exact rationals (where the exact
\* product is a whole number the float product can fall one unit short)
dim(c, num, den) == <<(c[1] * num) \div den, (c[2] * num) \div den, (c[3] * num) \div den>>

\* lerp_color(a, b, num/den) with 0 <= num/den <= 1: int(a + (b - a) * t)
lerp_color(a, b, num, den) ==
    <<(a[1] * den + (b[1] - a[1]) * num) \div den,
      (a[2] * den + (b[2] - a[2]) * num) \div den,
      (a[3] * den + (b[3] - a[3]) * num) \div den>>

Rgb(name, c) == <<name, c[1], c[2], c[3]>>
Mode(name, mode, speed) == <<name, mode, speed, 0>>
Flash(ms) == <<"flash_white", ms, 0, 0>>

Pal(e) == PALETTES(e.palette_name)

\* pal[idx % len(pal)]
PalAt(e, idx) == Pal(e)[(idx % Len(Pal(e))) + 1]

-----------------------------------------------------------------------------
(* Phrase boundary accent *)

on_phrase(e) ==
    IF e.section \in {"CHORUS", "VERSE"} THEN [e EXCEPT !.pi = @ + 1] ELSE e

on_phrase_calls(e) ==
    IF e.section = "CHORUS" THEN <<Flash(180)>>
    ELSE IF e.section = "BUILD"
         THEN <<Flash(80 + (120 * e.fx_beat) \div Max(1, e.fx_dur))>>
    ELSE <<>>

-----------------------------------------------------------------------------
(* Effect execution *)

\* The state an effect's branch of _execute_effect leaves (before "advance")
effect_state(e, is_downbeat, phrase) ==
    LET fx == e.effect
        eb == e.fx_beat
        bump == IF phrase THEN e.pi + 1 ELSE e.pi
    IN  CASE fx = "SINGLE_SPOT" -> [e EXCEPT !.pi = bump]
          [] fx = "COLOR_WASH" ->
                [e EXCEPT !.pi = IF eb > 0 /\ eb % 8 = 0 THEN @ + 1 ELSE @]
          [] fx \in {"SOFT_PULSE", "SLOW_BREATHE"} ->
                [e EXCEPT !.pi = bump,
                          !.in_vendor_mode =
                              IF phrase THEN FALSE
                              ELSE IF ~e.in_vendor_mode \/ is_downbeat THEN TRUE
                              ELSE @]
          [] fx \in {"AB_CHASE", "STROBE_RAMP", "COLOR_RISE", "BEAT_CYCLE", "FADE_WALK"} ->
                [e EXCEPT !.in_vendor_mode = FALSE]
          [] fx = "AB_ALTERNATE" ->
                [e EXCEPT !.in_vendor_mode = FALSE,
                          !.pi = IF eb > 0 /\ eb % 8 = 0 THEN @ + 1 ELSE @]
          [] fx \in {"AB_COMPLEMENT", "DOWNBEAT_BLAST"} ->
                [e EXCEPT !.in_vendor_mode = FALSE, !.pi = bump]
          [] fx = "STROBE_SPLIT" ->
                [e EXCEPT !.in_vendor_mode = TRUE, !.pi = bump]
          [] fx = "BLACKOUT_BLAST" ->
                [e EXCEPT !.in_vendor_mode =
                              IF eb < 2 THEN FALSE ELSE IF eb = 2 THEN TRUE ELSE @]
          [] fx = "DROP_STROBE" -> [e EXCEPT !.in_vendor_mode = TRUE]
          [] OTHER -> e

\* An effect executor that expires an effect one beat late
execute_effect_late(e, is_downbeat, phrase, rnd) ==
    LET e1 == effect_state(e, is_downbeat, phrase)
        e2 == [e1 EXCEPT !.fx_beat = @ + 1]
    IN  IF e2.fx_beat > e2.fx_dur THEN pick_effect(e2, e2.section, rnd) ELSE e2

\* _execute_effect: the branch of the active effect, then advance
execute_effect(e, is_downbeat, phrase, rnd) ==
    LET e1 == effect_state(e, is_downbeat, phrase)
        e2 == [e1 EXCEPT !.fx_beat = @ + 1]
    IN  IF e2.fx_beat >= e2.fx_dur THEN pick_effect(e2, e2.section, rnd) ELSE e2

\* The lighting-sink calls of that branch
execute_effect_calls(e, bpm, bar_pos, is_downbeat, phrase, onset) ==
    LET fx   == e.effect
        eb   == e.fx_beat
        dur  == Max(1, e.fx_dur)
        beat == e.beat
        pi   == e.pi
        c0   == PalAt(e, pi)
        c1   == PalAt(e, pi + 1)
        even == (beat % 2 = 0)
        bar_half == (beat \div BAR_LEN) % 2
        pulse(speed) ==
            IF ~e.in_vendor_mode \/ is_downbeat
            THEN <<Mode("mode_a", nearest_pulse_mode(c0), speed),
                   Mode("mode_b", nearest_pulse_mode(c0), speed)>>
            ELSE <<>>
    IN  CASE fx = "SINGLE_SPOT" ->
                IF ((beat - 1) \div (BAR_LEN * 2)) % 2 = 0
                THEN <<Rgb("rgb_a", c0), Rgb("rgb_b", BLACK)>>
                ELSE <<Rgb("rgb_a", BLACK), Rgb("rgb_b", c0)>>
          [] fx = "COLOR_WASH" ->
                <<Rgb("rgb_a", lerp_color(c0, c1, eb % 8, 8)),
                  Rgb("rgb_b", lerp_color(c0, c1, (eb - 2) % 8, 8))>>
          [] fx = "SOFT_PULSE" -> pulse(80)
          [] fx = "AB_CHASE" ->
                LET bright == dim(c0, 2 * dur + 3 * eb, 10 * dur)
                IN  (IF even THEN <<Rgb("rgb_a", WHITE), Rgb("rgb_b", bright)>>
                             ELSE <<Rgb("rgb_a", bright), Rgb("rgb_b", WHITE)>>)
                    \o (IF is_downbeat THEN <<Flash(60 + (90 * eb) \div dur)>> ELSE <<>>)
          [] fx = "STROBE_RAMP" ->
                <<Flash((140 * dur - 100 * eb) \div dur)>>
                \o (IF even THEN <<Rgb("rgb_a", c0), Rgb("rgb_b", BLACK)>>
                            ELSE <<Rgb("rgb_a", BLACK), Rgb("rgb_b", c0)>>)
          [] fx = "COLOR_RISE" ->
                LET c     == PalAt(e, pi + eb \div 2)
                    mixed == lerp_color(dim(c, 1, 2), WHITE, 9 * eb, 20 * dur)
                IN  <<Rgb("rgb_a", mixed), Rgb("rgb_b", mixed)>>
                    \o (IF is_downbeat THEN <<Flash(50 + (100 * eb) \div dur)>> ELSE <<>>)
          [] fx = "AB_ALTERNATE" ->
                (IF even THEN <<Rgb("rgb_a", c0), Rgb("rgb_b", c1)>>
                         ELSE <<Rgb("rgb_a", c1), Rgb("rgb_b", c0)>>)
                \o (IF is_downbeat /\ onset > 600000 THEN <<Flash(80)>> ELSE <<>>)
          [] fx = "AB_COMPLEMENT" ->
                (IF bar_half = 0
                 THEN <<Rgb("rgb_a", c0), Rgb("rgb_b", complement(c0))>>
                 ELSE <<Rgb("rgb_a", complement(c0)), Rgb("rgb_b", c0)>>)
                \o (IF phrase THEN <<Flash(120)>> ELSE <<>>)
          [] fx = "BEAT_CYCLE" ->
                <<Rgb("rgb_a", PalAt(e, pi + eb)), Rgb("rgb_b", PalAt(e, pi + eb + 2))>>
                \o (IF is_downbeat /\ onset > 700000 THEN <<Flash(70)>> ELSE <<>>)
          [] fx = "DOWNBEAT_BLAST" ->
                IF bar_pos = 0 THEN <<Rgb("rgb_a", WHITE), Rgb("rgb_b", WHITE)>>
                ELSE IF bar_pos = 1 THEN <<Rgb("rgb_a", c0), Rgb("rgb_b", BLACK)>>
                ELSE IF bar_pos = 2 THEN <<Rgb("rgb_a", c0), Rgb("rgb_b", c1)>>
                ELSE <<Rgb("rgb_a", BLACK), Rgb("rgb_b", c1)>>
          [] fx = "STROBE_SPLIT" ->
                IF bar_half = 0
                THEN <<Mode("mode_a", MODE_STROBE_WHITE, speed_for_bpm(bpm, 12)),
                       Rgb("rgb_b", c0)>>
                ELSE <<Rgb("rgb_a", c0),
                       Mode("mode_b", MODE_STROBE_WHITE, speed_for_bpm(bpm, 12))>>
          [] fx = "BLACKOUT_BLAST" ->
                IF eb < 2 THEN <<Rgb("rgb_a", BLACK), Rgb("rgb_b", BLACK)>>
                ELSE IF eb = 2
                     THEN <<Mode("set_mode", MODE_STROBE_RAINBOW, speed_for_bpm(bpm, 18)),
                            Flash(250)>>
                ELSE <<Mode("set_mode", MODE_STROBE_RAINBOW, speed_for_bpm(bpm, 15))>>
          [] fx = "DROP_STROBE" ->
                <<Mode("set_mode", MODE_STROBE_RAINBOW, speed_for_bpm(bpm, 15))>>
                \o (IF eb = 0 THEN <<Flash(200)>>
                    ELSE IF beat % 4 = 0 THEN <<Flash(120)>> ELSE <<>>)
          [] fx = "SLOW_BREATHE" -> pulse(95)
          [] fx = "FADE_WALK" ->
                LET c == PalAt(e, pi + eb \div 4)
                IN  <<Rgb("rgb_a", c), Rgb("rgb_b", dim(c, 1, 2))>>
          [] OTHER -> <<>>

-----------------------------------------------------------------------------
(* Preset executor *)

run_preset(e) ==
    IF e.preset_name = "Beat: Palette Cycle" THEN [e EXCEPT !.pi = @ + 1] ELSE e

run_preset_calls(e, bpm, is_downbeat) ==
    LET name == e.preset_name
    IN  CASE name = "Beat: White Flash" -> <<Flash(70)>>
          [] name = "Beat: Palette Cycle" -> <<Rgb("set_rgb", PalAt(e, e.pi))>>
          [] name = "Beat: Alternate Base/Alt" ->
                IF e.beat % 2 = 0 THEN <<Rgb("set_rgb", ALT_COLOR)>>
                ELSE <<Rgb("set_rgb", BASE_COLOR)>>
          [] name = "Beat: Downbeat Rainbow" ->
                IF is_downbeat
                THEN <<Mode("set_mode", MODE_STROBE_RAINBOW, speed_for_bpm(bpm, 10))>>
                ELSE <<Rgb("set_rgb", BASE_COLOR)>>
          [] OTHER -> <<>>

-----------------------------------------------------------------------------
(* Logging: building the LogEntry calls _energy_tier() once more *)

log(e) == energy_tier(e)

-----------------------------------------------------------------------------
(* Main beat entry *)

\* on_beat up to and including the detectors (common to both paths)
beat_front(e, ev) ==
    LET e1 == update_energy([e EXCEPT !.beat = @ + 1], ev)
        e2 == [e1 EXCEPT !.bpm_hist = IF ev.bpm > 0
                                      THEN DequeAppend(@, ev.bpm, BPM_HIST_LEN) ELSE @,
                         !.cooldown = IF @ > 0 THEN @ - 1 ELSE @]
    IN  [e2 EXCEPT !.c_drop = detect_drop(e2),
                   !.c_build = detect_build(e2),
                   !.c_breakdown = detect_breakdown(e2)]

BarPos(beat) == (beat - 1) % BAR_LEN
IsDownbeat(beat) == BarPos(beat) = 0

\* A phrase flag that counts the first beat as a boundary
IsPhrase_from_first(beat) ==
    ((beat - 1) \div BAR_LEN) % PHRASE_BARS = 0 /\ IsDownbeat(beat)

IsPhrase(beat) ==
    ((beat - 1) \div BAR_LEN) % PHRASE_BARS = 0 /\ IsDownbeat(beat) /\ beat > 1

PresetOn(e) == e.preset_active /\ e.preset_name # ""

\* An on_beat whose state machine goes on under a preset
beat_back_no_bypass(e1, rnd) ==
    LET db == IsDownbeat(e1.beat)
        ph == IsPhrase(e1.beat)
        e2 == update_section(IF PresetOn(e1) THEN run_preset(e1) ELSE e1, rnd)
        e3 == IF ph THEN on_phrase(e2) ELSE e2
    IN  log(execute_effect(e3, db, ph, rnd))

\* on_beat after the detectors: the preset path or section update, phrase
\* accent and effect execution; then the log record
beat_back(e1, rnd) ==
    LET db == IsDownbeat(e1.beat)
        ph == IsPhrase(e1.beat)
    IN  IF PresetOn(e1) THEN log(run_preset(e1))
        ELSE LET e2 == update_section(e1, rnd)
                 e3 == IF ph THEN on_phrase(e2) ELSE e2
             IN  log(execute_effect(e3, db, ph, rnd))

\* The engine after on_beat(bpm, rms, high, bass, onset_strength)
on_beat(e, ev, rnd) == beat_back(beat_front(e, ev), rnd)

\* The lighting-sink calls of beat_back, in order
beat_back_calls(e1, ev, rnd) ==
    LET db == IsDownbeat(e1.beat)
        ph == IsPhrase(e1.beat)
    IN  IF PresetOn(e1) THEN run_preset_calls(e1, ev.bpm, db)
        ELSE LET e2 == update_section(e1, rnd)
                 e3 == IF ph THEN on_phrase(e2) ELSE e2
             IN  (IF ph THEN on_phrase_calls(e2) ELSE <<>>)
                 \o execute_effect_calls(e3, ev.bpm, BarPos(e1.beat), db, ph, ev.onset)

\* The lighting-sink calls on_beat issues
on_beat_calls(e, ev, rnd) == beat_back_calls(beat_front(e, ev), ev, rnd)

\* The outcomes of random.choices that beat_back can see: one per effect
\* available to the pick it makes (at most one pick per beat: on a section
\* change, or when the effect's duration runs out)
Draws(e1) ==
    LET e2  == energy_tier(e1)
        new == NextSection(e2)
    IN  IF PresetOn(e1) THEN {1}
        ELSE IF new # e2.section THEN 1..Len(Available(e2, new))
        ELSE IF e2.fx_beat + 1 >= e2.fx_dur THEN 1..Len(Available(e2, e2.section))
        ELSE {1}

-----------------------------------------------------------------------------
(* Lifecycle / control surface *)

\* A variant of the reset that leaves the drop cooldown running
reset_keeps_cooldown(e) == Merge(e, [FreshMusicContext EXCEPT !.cooldown = e.cooldown])

reset_music_context(e) == Merge(e, FreshMusicContext)

set_style(e, name) == IF name \in STYLES THEN [e EXCEPT !.style = name] ELSE e

set_palette(e, name) ==
    IF name \in PALETTE_NAMES THEN [e EXCEPT !.palette_name = name, !.pi = 0] ELSE e

set_manual_tier(e, tier) == [e EXCEPT !.manual_tier = tier]

enable_preset(e, name) == [e EXCEPT !.preset_active = TRUE, !.preset_name = name]

disable_preset(e) == [e EXCEPT !.preset_active = FALSE, !.preset_name = ""]

\* A force_build that leaves a running drop alone
force_build_unless_drop(e, rnd) ==
    IF e.section = "DROP" THEN e ELSE transition_section(e, "BUILD", rnd)

force_build(e, rnd) == transition_section(e, "BUILD", rnd)

force_drop(e, rnd) == [transition_section(e, "DROP", rnd) EXCEPT !.cooldown = 16]

\* app.py: engine._sensitivity_scale = sensitivity_multiplier (slider 50..200 %)
set_sensitivity(e, pct) == [e EXCEPT !.sensitivity_scale = pct]

-----------------------------------------------------------------------------
(* Inputs and bounds of the engine specifications *)

\* Representative BeatEvents: a quiet beat without tempo, a loud beat, a spike
BeatInputs ==
    << [bpm |-> 0,     rms |-> 20000,  high |-> 0,     bass |-> 0,     onset |-> 0],
       [bpm |-> 12000, rms |-> 100000, high |-> 8000,  bass |-> 4000,  onset |-> 500000],
       [bpm |-> 12800, rms |-> 500000, high |-> 30000, bass |-> 30000, onset |-> 1000000] >>

\* Track shapes: the order of the levels (indices of BeatInputs) a track goes
\* through; each segment lasts any number of beats (at least one)
TrackShapes ==
    << <<1, 2, 1, 3>>,      \* quiet, loud, a dip, a spike
       <<2, 1, 2, 1>>,      \* loud, quiet, loud, quiet
       <<3, 2, 1>>,         \* fading out
       <<1, 3, 1>> >>       \* a burst

MaxBeats == 20       \* on_beat calls per run of SpecBeats
MaxCtlBeats == 4     \* on_beat calls per run of SpecControl
MaxOps == 2          \* control-surface calls per run of SpecControl
MaxGridBeats == 100  \* on_beat calls per run of SpecGrid

CtlLevels == {1, 2}                      \* the BeatInputs fed in SpecControl
StyleInputs == {"EDM", "Disco"}          \* "Disco" is no style
PaletteInputs == {"Warm", "Rainbow"}     \* "Rainbow" is no palette
\* A preset that moves the palette index, one that tells downbeats apart, a
\* name that is no preset, and the empty name
PresetInputs == {"Beat: Palette Cycle", "Beat: Downbeat Rainbow", "Beat: Sparkle", ""}
TierInputs == {NoTier, HIGH}
SensitivityInputs == {200}
\* Tempos handed to on_beat, in 1/100 BPM: negative, none, 3 BPM, 120, 160 (a
\* tie of the rounding at intensity 1.5), 300
BpmInputs == {-100, 0, 300, 12000, 16000, 30000}

-----------------------------------------------------------------------------
(* Engine actions *)

\* DiagnosticLogger.log(entry): the exception it ends with when the write
\* to the CSV file succeeds (ok) or fails
logger_log(ok) == IF ok THEN "none" ELSE "OSError"

\* _log: the LogEntry is built (log(e) above), then handed to the logger;
\* nothing is caught
log_raises(ok) == logger_log(ok)

\* on_beat: _log is its last call on both paths, and nothing is caught
on_beat_raises(ok) == log_raises(ok)

\* The tier the first _energy_tier() call of an on_beat returns (from
\* _update_section, or on the preset path from _log) and the grid tick of
\* that on_beat; e1 is the engine after the detectors
Seen(e1, before) ==
    LET t == TierOf(energy_tier(e1))
    IN  [tier |-> t, high_run |-> IF t = HIGH THEN Min(6, before.high_run + 1) ELSE 0,
         bar_pos |-> BarPos(e1.beat), is_downbeat |-> IsDownbeat(e1.beat),
         phrase |-> IsPhrase(e1.beat)]

NoBeatSeen ==
    [tier |-> NoTier, high_run |-> 0, bar_pos |-> 0, is_downbeat |-> FALSE, phrase |-> FALSE]

\* on_beat(BeatInputs[k]) with each outcome of the random draw, the
\* diagnostic sink working (ok) or failing
FeedLogged(k, ok) ==
    \E ev \in {BeatInputs[k]} :
      \E e1 \in {beat_front(eng, ev)} :
        \E rnd \in Draws(e1) :
          /\ eng' = beat_back(e1, rnd)
          /\ calls' = beat_back_calls(e1, ev, rnd)
          /\ lastOp' = "on_beat"
          /\ nBeats' = nBeats + 1
          /\ raised' = on_beat_raises(ok)
          /\ seen' = Seen(e1, seen)

\* on_beat(ev) with each outcome of the random draw and a working sink
FeedEvent(ev) ==
    \E e1 \in {beat_front(eng, ev)} :
      \E rnd \in Draws(e1) :
        /\ eng' = beat_back(e1, rnd)
        /\ calls' = beat_back_calls(e1, ev, rnd)
        /\ lastOp' = "on_beat"
        /\ nBeats' = nBeats + 1
        /\ raised' = on_beat_raises(TRUE)
        /\ seen' = Seen(e1, seen)

\* on_beat(BeatInputs[k]) with a working diagnostic sink
Feed(k) == FeedLogged(k, TRUE)

\* One beat of the track: in the current segment, or the first of the next
Beat ==
    /\ nBeats < MaxBeats
    /\ \/ /\ seg >= 1
          /\ seg' = seg
       \/ /\ seg < Len(TrackShapes[track])
          /\ seg' = seg + 1
    /\ Feed(TrackShapes[track][seg'])
    /\ UNCHANGED <<nOps, track>>

\* One beat, any level of CtlLevels
CtlBeat ==
    /\ nBeats < MaxCtlBeats
    /\ \E k \in CtlLevels : Feed(k)
    /\ UNCHANGED <<nOps, track, seg>>

\* One beat of a long steady track
GridBeat ==
    /\ nBeats < MaxGridBeats
    /\ \E k \in CtlLevels : k = track /\ Feed(k)
    /\ UNCHANGED <<nOps, track, seg>>

\* One loud beat at any tempo of BpmInputs
SpeedBeat ==
    /\ nBeats < MaxCtlBeats
    /\ \E bpm \in BpmInputs : FeedEvent([BeatInputs[2] EXCEPT !.bpm = bpm])
    /\ UNCHANGED <<nOps, track, seg>>

\* One beat, any level of CtlLevels, the diagnostic sink working or failing
LoggedBeat ==
    /\ nBeats < MaxCtlBeats
    /\ \E k \in CtlLevels : \E ok \in BOOLEAN : FeedLogged(k, ok)
    /\ UNCHANGED <<nOps, track, seg>>

Control(op, e) ==
    /\ nOps < MaxOps
    /\ eng' = e
    /\ calls' = <<>>
    /\ lastOp' = op
    /\ nOps' = nOps + 1
    /\ raised' = "none"
    /\ UNCHANGED <<nBeats, track, seg, seen>>

SetStyle == \E name \in StyleInputs : Control("set_style", set_style(eng, name))

SetPalette == \E name \in PaletteInputs : Control("set_palette", set_palette(eng, name))

SetManualTier == \E t \in TierInputs : Control("set_manual_tier", set_manual_tier(eng, t))

EnablePreset == \E name \in PresetInputs : Control("enable_preset", enable_preset(eng, name))

DisablePreset == Control("disable_preset", disable_preset(eng))

ForceBuild ==
    \E rnd \in 1..Len(Available(eng, "BUILD")) : Control("force_build", force_build(eng, rnd))

ForceDrop ==
    \E rnd \in 1..Len(Available(eng, "DROP")) : Control("force_drop", force_drop(eng, rnd))

SetSensitivity ==
    \E pct \in SensitivityInputs : Control("set_sensitivity", set_sensitivity(eng, pct))

ResetMusicContext == Control("reset_music_context", reset_music_context(eng))

-----------------------------------------------------------------------------
(* AudioBeatDetector (src/audiosync.py): configuration *)

REFRACTORY_MS == 250          \* _refractory = 0.25 s
BPM_MIN == 7000               \* _bpm_min = 70.0, in 1/100 BPM
BPM_MAX == 18000              \* _bpm_max = 180.0
UNLOCK_NEEDED == 5            \* _unlock_needed
SILENCE_RESET_MS == 1600      \* _silence_reset_seconds = 1.6 s
GET_TIMEOUT_MS == 250         \* self._q.get(timeout=0.25)
BEATS_LEN == 48               \* maxlen of _beats
EST_WINDOW == 24              \* beats the estimator looks at
MAX_LAG == 8                  \* largest j - i of a pair
QUEUE_MAXSIZE == 8            \* queue.Queue(maxsize=8)

NoTime == -1                  \* _last_beat_ts is None

\* The detector's fields after __init__, and after reset()
DetectorInit ==
    [ beats |-> <<>>, last_beat_ts |-> NoTime,
      bpm_stable |-> 0, deviation_beats |-> 0,
      rms_ema |-> 0, rms_peak |-> 0,
      bass_ema |-> 0, mid_ema |-> 0, high_ema |-> 0,
      has_prev |-> FALSE,         \* _prev_spectrum is not None
      flux_ema |-> 0, onset_strength |-> 0 ]

\* reset()
reset(d) == DetectorInit

-----------------------------------------------------------------------------
(* Tempo estimate *)

\* _median(xs) of a family xs of numbers (a list, or any indexed family): the
\* k-th smallest is the value with fewer than k members below it and at least
\* k members up to it
median(xs) ==
    LET D == DOMAIN xs
        n == Cardinality(D)
        V == {xs[q] : q \in D}
        Kth(k) == CHOOSE v \in V : /\ Cardinality({q \in D : xs[q] < v}) < k
                                   /\ k <= Cardinality({q \in D : xs[q] <= v})
    IN  IF n = 0 THEN 0
        ELSE IF n % 2 = 1 THEN Kth(n \div 2 + 1)
        ELSE (Kth(n \div 2) + Kth(n \div 2 + 1)) \div 2

\* The pairs (i, j) the two loops visit: i < j <= i + MAX_LAG
PairsOf(n) == UNION {{<<i, j>> : j \in (i + 1)..Min(i + MAX_LAG, n)} : i \in 1..(n - 1)}

\* The per-beat period dt of the pair q of ts, in 1/100 ms
PairPeriod(ts, q) == ((ts[q[2]] - ts[q[1]]) * 100) \div (q[2] - q[1])

\* min_dt <= dt <= max_dt with min_dt = 60/180 s and max_dt = 60/70 s,
\* decided on the exact quotient (ts[j] - ts[i]) / (j - i)
InWindowPair(ts, q) ==
    LET diff == ts[q[2]] - ts[q[1]]
        k    == q[2] - q[1]
    IN  3 * diff >= 1000 * k /\ 7 * diff <= 6000 * k

\* per_beats: the in-window periods over the last EST_WINDOW beats, indexed by
\* the pair each comes from (their order in the list does not matter to what
\* the code does with them: a count and a median)
per_beats(beats) ==
    LET ts == LastN(beats, EST_WINDOW)
        D  == {q \in PairsOf(Len(ts)) : InWindowPair(ts, q)}
    IN  [q \in D |-> PairPeriod(ts, q)]

\* bpm_raw = 60 / dt_med, in 1/100 BPM (0 where the code returns early)
bpm_raw(beats) ==
    LET pb == per_beats(beats)
    IN  IF Len(beats) < 6 \/ Cardinality(DOMAIN pb) < 4 THEN 0
        ELSE 600000000 \div Max(1, median(pb))

\* min(cands, key=|c - target|): the first of the nearest (where the exact
\* distances tie, the float distances can fall either way)
RECURSIVE Nearest(_, _)
Nearest(cands, target) ==
    IF Len(cands) = 1 THEN cands[1]
    ELSE LET rest == Nearest(Tail(cands), target)
         IN  IF Abs(cands[1] - target) <= Abs(rest - target) THEN cands[1] ELSE rest

RECURSIVE InWin(_)
InWin(cands) ==
    IF cands = <<>> THEN <<>>
    ELSE (IF BPM_MIN <= Head(cands) /\ Head(cands) <= BPM_MAX THEN <<Head(cands)>> ELSE <<>>)
         \o InWin(Tail(cands))

\* best: the octave candidate nearest the lock, or nearest 120 BPM among those
\* in the window when unlocked
best_candidate(raw, stable) ==
    LET candidates == <<raw, raw * 2, raw \div 2>>
        in_win     == InWin(candidates)
    IN  IF stable > 0 THEN Nearest(candidates, stable)
        ELSE Nearest(IF in_win # <<>> THEN in_win ELSE candidates, 12000)

\* A folding that leaves out the two final folds into the window
fold_unclamped(raw, stable) == best_candidate(raw, stable)

\* The folding of a raw tempo: the best candidate, then folded into the window
fold(raw, stable) ==
    LET best == best_candidate(raw, stable)
        up   == IF best < BPM_MIN THEN best * 2 ELSE best
    IN  IF up > BPM_MAX THEN up \div 2 ELSE up

\* _estimate_bpm_pairwise(), in 1/100 BPM; 0 when there is no estimate
estimate_bpm_pairwise(beats, stable) ==
    IF bpm_raw(beats) = 0 THEN 0 ELSE fold(bpm_raw(beats), stable)

-----------------------------------------------------------------------------
(* Beat registration *)

\* rel > _unlock_pct: the estimate is more than 20% off the lock
Deviant(bpm_new, stable) == 5 * Abs(bpm_new - stable) > stable

\* A lock logic in which an estimate within 20% of the lock clears the
\* deviation counter
lock_update_consecutive(d, bpm_new) ==
    IF d.bpm_stable <= 0
    THEN [d EXCEPT !.bpm_stable = bpm_new, !.deviation_beats = 0]
    ELSE IF Deviant(bpm_new, d.bpm_stable)
         THEN IF d.deviation_beats + 1 >= UNLOCK_NEEDED
              THEN [d EXCEPT !.bpm_stable = bpm_new, !.deviation_beats = 0]
              ELSE [d EXCEPT !.deviation_beats = @ + 1]
         ELSE [d EXCEPT !.bpm_stable = (3 * @ + bpm_new) \div 4,
                        !.deviation_beats = 0]

\* A lock logic that re-locks on the first deviant estimate
lock_update_immediate(d, bpm_new) ==
    IF d.bpm_stable <= 0 \/ Deviant(bpm_new, d.bpm_stable)
    THEN [d EXCEPT !.bpm_stable = bpm_new, !.deviation_beats = 0]
    ELSE [d EXCEPT !.bpm_stable = (3 * @ + bpm_new) \div 4,
                   !.deviation_beats = Max(0, @ - 1)]

\* The lock logic of _register_beat applied to a valid estimate
lock_update(d, bpm_new) ==
    IF d.bpm_stable <= 0
    THEN [d EXCEPT !.bpm_stable = bpm_new, !.deviation_beats = 0]
    ELSE IF Deviant(bpm_new, d.bpm_stable)
         THEN IF d.deviation_beats + 1 >= UNLOCK_NEEDED
              THEN [d EXCEPT !.bpm_stable = bpm_new, !.deviation_beats = 0]
              ELSE [d EXCEPT !.deviation_beats = @ + 1]
         ELSE [d EXCEPT !.bpm_stable = (3 * @ + bpm_new) \div 4,
                        !.deviation_beats = Max(0, @ - 1)]

\* A registration without refractory window
Accepts_any(d, t_now) == TRUE

\* Whether _register_beat(t_now, rms) accepts the candidate
Accepts(d, t_now) ==
    d.last_beat_ts = NoTime \/ t_now - d.last_beat_ts >= REFRACTORY_MS

\* The onset strength rms / peak is kept to a thousandth.
\* The BeatEvent _register_beat hands to on_beat (d is the detector after it)
BeatEvent(d, t_now) ==
    [ timestamp |-> t_now, bpm |-> d.bpm_stable, rms |-> d.rms_ema,
      bass |-> d.bass_ema, mid |-> d.mid_ema, high |-> d.high_ema,
      onset_strength |-> d.onset_strength ]

\* A registration that gives up the lock on a beat without estimate
accepted_beat_unlocks(d, t_now, rms) ==
    LET peak  == Max((95 * d.rms_peak) \div 100, rms)
        d1    == [d EXCEPT !.last_beat_ts = t_now,
                           !.beats = DequeAppend(@, t_now, BEATS_LEN),
                           !.rms_peak = peak,
                           !.onset_strength =
                               Min(1000000, ((rms * 1000) \div Max(1, peak)) * 1000)]
        bpm_new == estimate_bpm_pairwise(d1.beats, d1.bpm_stable)
        d2    == IF bpm_new <= 0 THEN [d1 EXCEPT !.bpm_stable = 0, !.deviation_beats = 0]
                 ELSE lock_update(d1, bpm_new)
    IN  [det |-> d2, bpm_new |-> bpm_new, events |-> <<BeatEvent(d2, t_now)>>]

\* A registration whose peak does not decay
accepted_beat_peak_held(d, t_now, rms) ==
    LET peak  == Max(d.rms_peak, rms)
        d1    == [d EXCEPT !.last_beat_ts = t_now,
                           !.beats = DequeAppend(@, t_now, BEATS_LEN),
                           !.rms_peak = peak,
                           !.onset_strength =
                               Min(1000000, ((rms * 1000) \div Max(1, peak)) * 1000)]
        bpm_new == estimate_bpm_pairwise(d1.beats, d1.bpm_stable)
        d2    == IF bpm_new <= 0 THEN d1 ELSE lock_update(d1, bpm_new)
    IN  [det |-> d2, bpm_new |-> bpm_new, events |-> <<BeatEvent(d2, t_now)>>]

\* _register_beat past its refractory test: the beat is recorded, the lock
\* updated, and on_beat (a consumer is registered) called with the BeatEvent
accepted_beat(d, t_now, rms) ==
    LET peak  == Max((95 * d.rms_peak) \div 100, rms)
        d1    == [d EXCEPT !.last_beat_ts = t_now,
                           !.beats = DequeAppend(@, t_now, BEATS_LEN),
                           !.rms_peak = peak,
                           !.onset_strength =
                               Min(1000000, ((rms * 1000) \div Max(1, peak)) * 1000)]
        bpm_new == estimate_bpm_pairwise(d1.beats, d1.bpm_stable)
        d2    == IF bpm_new <= 0 THEN d1 ELSE lock_update(d1, bpm_new)
    IN  [det |-> d2, bpm_new |-> bpm_new, events |-> <<BeatEvent(d2, t_now)>>]

\* A registration that tells the consumer of the candidates it rejects too
registered_tells_rejected(d, t_now, rms) ==
    IF ~Accepts(d, t_now)
    THEN [det |-> d, bpm_new |-> 0, events |-> <<BeatEvent(d, t_now)>>]
    ELSE accepted_beat(d, t_now, rms)

\* _register_beat(t_now, rms): the detector after it, the estimate bpm_new it
\* made (0 if none) and the calls of on_beat it made, in order
registered(d, t_now, rms) ==
    IF ~Accepts(d, t_now) THEN [det |-> d, bpm_new |-> 0, events |-> <<>>]
    ELSE accepted_beat(d, t_now, rms)

register_beat(d, t_now, rms) == registered(d, t_now, rms).det

-----------------------------------------------------------------------------
(* The analysis loop.  A frame is given by what the code computes from it:   *)
(* its rms, its normalised band energies, its spectral flux against the      *)
(* previous frame, and what aubio's tempo object answers for it.             *)

\* _analyze_spectrum(x)
analyze_spectrum(d, x) ==
    [d EXCEPT !.bass_ema = (70 * @ + 30 * x.bass) \div 100,
              !.mid_ema  = (70 * @ + 30 * x.mid) \div 100,
              !.high_ema = (70 * @ + 30 * x.high) \div 100,
              !.flux_ema = IF d.has_prev THEN (80 * @ + 20 * x.flux) \div 100 ELSE @,
              !.has_prev = TRUE]

\* beat_now of run(): aubio's answer, or the spectral-flux gate (after start-up)
\* or the adaptive rms gate (at start-up); d has the frame's rms in its rms_ema
BeatNow(d, x, aubio) ==
    IF aubio THEN x.onset
    ELSE IF d.has_prev /\ d.flux_ema > 0
         THEN x.flux > 50000 /\ 10 * x.flux > 18 * d.flux_ema /\ x.rms > 30000
         ELSE x.rms > 50000 /\ 10 * x.rms > 7 * d.rms_ema

\* The silence watchdog at the top of a loop iteration: lp is the loop's state
\* [det, last_energy_ts]
watchdog(lp, t_now) ==
    IF t_now - lp.last_energy_ts > SILENCE_RESET_MS /\ lp.det.rms_ema < 20000
    THEN [det |-> reset(lp.det), last_energy_ts |-> t_now]
    ELSE lp

\* One iteration of the loop that gets frame x from the queue at time t_now
iterate_frame(lp, t_now, x, aubio) ==
    LET w  == watchdog(lp, t_now)
        d1 == [w.det EXCEPT !.rms_ema = (75 * @ + 25 * x.rms) \div 100]
        le == IF x.rms > 20000 THEN t_now ELSE w.last_energy_ts
        bn == BeatNow(d1, x, aubio)
        d2 == analyze_spectrum(d1, x)
        rb == IF bn THEN registered(d2, t_now, x.rms) ELSE [det |-> d2, bpm_new |-> 0, events |-> <<>>]
    IN  [det |-> rb.det,
         events |-> rb.events,
         last_energy_ts |-> le,
         beat_now |-> bn,
         accepted |-> bn /\ Accepts(d2, t_now),
         bpm_new |-> rb.bpm_new,
         locked |-> w.det.bpm_stable]

\* One iteration of the loop whose get() times out (queue.Empty)
iterate_empty(lp, t_now) == watchdog(lp, t_now)

-----------------------------------------------------------------------------
(* The detector's environment: frames and the times the loop runs at *)

VARIABLES
    det,             \* the AudioBeatDetector's tempo and energy fields
    last_energy_ts,  \* run()'s local: when significant energy was last seen
    now,             \* the time (ms since run() began) of the last loop iteration
    out,             \* what the last detector step did: [op, beat_now, accepted, bpm_new, event]
    haveAubio,       \* HAVE_AUBIO of this build
    prog,            \* where the input is in its rhythm: [rhythm, seg, pos]
    nIter,           \* detector steps made so far (bounded)
    recent           \* for the estimates judged against the lock since it was
                     \* last empty: whether each deviated (the last five)

tempoVars == <<det, last_energy_ts, now, out, haveAubio, prog, nIter, recent>>

\* A frame on which a beat hits, one between beats, a softer beat, and a
\* silent frame
BeatX   == [rms |-> 200000, bass |-> 300000, mid |-> 100000, high |-> 50000,
            flux |-> 400000, onset |-> TRUE]
FillX   == [rms |-> 40000, bass |-> 60000, mid |-> 30000, high |-> 10000,
            flux |-> 10000, onset |-> FALSE]
SoftX   == [rms |-> 100000, bass |-> 150000, mid |-> 50000, high |-> 25000,
            flux |-> 400000, onset |-> TRUE]
SilentX == [rms |-> 5000, bass |-> 1000, mid |-> 1000, high |-> 1000,
            flux |-> 1000, onset |-> FALSE]

\* Steps of the input: a frame the loop gets dt ms after its last iteration, a
\* get() that times out, a reset() call from outside
FrameAt(dt, x) == [kind |-> "frame", dt |-> dt, x |-> x]
Timeout == [kind |-> "idle", dt |-> GET_TIMEOUT_MS, x |-> SilentX]
ResetCall == [kind |-> "reset", dt |-> 0, x |-> SilentX]

HOP_MS == 23     \* one hop of 1024 samples at 44100 Hz

\* One beat period of p ms: the beat's frame, p ms after the last step
Period(p) == <<FrameAt(p, BeatX)>>

\* The same with a frame between beats, one hop after the last beat's
Filled(p) == <<FrameAt(HOP_MS, FillX), FrameAt(p - HOP_MS, BeatX)>>

\* Three beat periods around p ms, jittered by 5% and less
Jittered(p) ==
    <<FrameAt(p, BeatX), FrameAt(p + p \div 20, BeatX), FrameAt(p - p \div 25, BeatX)>>

\* The rhythms fed: each a sequence of segments, each segment a cycle of steps
\* repeated any number of times (at least once)
Rhythms ==
    << <<Period(500), Period(1000)>>,            \* 120 BPM, then half time
       <<Period(400), Period(800)>>,             \* 150 BPM, then half time
       <<Period(857), Period(353), Period(1000)>>,
       <<Period(334)>>,                          \* 179.6 BPM
       <<Period(800), Period(632)>>,             \* 75 BPM, then 95 BPM
       <<Period(500), Period(123)>>,             \* 120 BPM, then a flurry of onsets
       <<Period(250), Period(249)>>,             \* at the refractory limit
       <<Jittered(500)>>,
       <<Period(500), <<FrameAt(250, SilentX)>>, <<Timeout>>>>,
       <<Period(600), <<ResetCall>>, Period(400)>>,
       <<Filled(500), Filled(353)>>,
       <<Filled(700), Filled(375)>>,
       <<Period(1000), Period(500)>>,            \* 60 BPM (below the window), then 120
       <<Period(500), <<FrameAt(500, SoftX)>>>> >>   \* loud beats, then softer ones

MaxIter == 22    \* detector steps per run of SpecTempo
MaxLongIter == 32    \* detector steps per run of SpecLongRun

\* The positions the input can be at next: further in the cycle, around to its
\* start, or at the start of the next segment
NextPositions(p) ==
    LET r == Rhythms[p.rhythm]
    IN  IF p.seg = 0 THEN {[p EXCEPT !.seg = 1, !.pos = 1]}
        ELSE IF p.pos < Len(r[p.seg]) THEN {[p EXCEPT !.pos = @ + 1]}
        ELSE {[p EXCEPT !.pos = 1]}
             \cup (IF p.seg < Len(r) THEN {[p EXCEPT !.seg = @ + 1, !.pos = 1]} ELSE {})

StepAt(p) == Rhythms[p.rhythm][p.seg][p.pos]

NoEvent == <<>>

-----------------------------------------------------------------------------
(* Detector actions *)

\* The loop's iteration at time t that gets frame x: what it does to the
\* detector
Iterate(t, x) ==
    \E r \in {iterate_frame([det |-> det, last_energy_ts |-> last_energy_ts],
                            t, x, haveAubio)} :
      /\ now' = t
      /\ det' = r.det
      /\ last_energy_ts' = r.last_energy_ts
      /\ out' = [op |-> "frame", beat_now |-> r.beat_now, accepted |-> r.accepted,
                 bpm_new |-> r.bpm_new,
                 event |-> r.events]
      /\ recent' = IF r.det.bpm_stable = 0 THEN <<>>
                   ELSE IF r.bpm_new > 0 /\ r.locked > 0
                        THEN LastN(Append(recent, Deviant(r.bpm_new, r.locked)),
                                   UNLOCK_NEEDED)
                   ELSE recent

\* The loop's iteration at time t whose get() times out
IterateEmpty(t) ==
    \E r \in {iterate_empty([det |-> det, last_energy_ts |-> last_energy_ts], t)} :
      /\ now' = t
      /\ det' = r.det
      /\ last_energy_ts' = r.last_energy_ts
      /\ out' = [op |-> "idle", beat_now |-> FALSE, accepted |-> FALSE,
                 bpm_new |-> 0, event |-> NoEvent]
      /\ recent' = IF r.det.bpm_stable = 0 THEN <<>> ELSE recent

\* One iteration of run()'s loop that gets a frame
Analyse ==
    /\ nIter < MaxIter
    /\ \E p \in NextPositions(prog) :
         /\ StepAt(p).kind = "frame"
         /\ prog' = p
         /\ Iterate(now + StepAt(p).dt, StepAt(p).x)
    /\ nIter' = nIter + 1
    /\ UNCHANGED haveAubio

\* The same over a longer run (SpecLongRun)
LongAnalyse ==
    /\ nIter < MaxLongIter
    /\ \E p \in NextPositions(prog) :
         /\ StepAt(p).kind = "frame"
         /\ prog' = p
         /\ Iterate(now + StepAt(p).dt, StepAt(p).x)
    /\ nIter' = nIter + 1
    /\ UNCHANGED haveAubio

\* One iteration of run()'s loop whose get() times out
Starve ==
    /\ nIter < MaxIter
    /\ \E p \in NextPositions(prog) :
         /\ StepAt(p).kind = "idle"
         /\ prog' = p
         /\ IterateEmpty(now + StepAt(p).dt)
    /\ nIter' = nIter + 1
    /\ UNCHANGED haveAubio

\* reset() called from outside the loop
Reset ==
    /\ nIter < MaxIter
    /\ \E p \in NextPositions(prog) :
         /\ StepAt(p).kind = "reset"
         /\ prog' = p
    /\ det' = reset(det)
    /\ out' = [op |-> "reset", beat_now |-> FALSE, accepted |-> FALSE,
               bpm_new |-> 0, event |-> NoEvent]
    /\ recent' = <<>>
    /\ nIter' = nIter + 1
    /\ UNCHANGED <<last_energy_ts, now, haveAubio>>

\* A detector just started (run() has set last_energy_ts), or idle
DetectorFresh ==
    /\ det = DetectorInit
    /\ last_energy_ts = 0
    /\ now = 0
    /\ out = [op |-> "start", beat_now |-> FALSE, accepted |-> FALSE,
              bpm_new |-> 0, event |-> NoEvent]
    /\ nIter = 0
    /\ recent = <<>>

-----------------------------------------------------------------------------
(* The capture queue: run()'s callback on the audio thread, run()'s loop on    *)
(* the detector thread                                                         *)

VARIABLES
    q,           \* self._q: the frames queued (by number), oldest first
    cb,          \* where the callback is: "idle", or about to "drop" or "retry"
    cbRaised,    \* an exception has escaped the callback
    nFrames,     \* frames captured so far (bounded); the callback holds the last
    lost,        \* frames captured that the loop will never get
    got,         \* the frames the loop has dequeued, in the order it got them
    dropped      \* the frames the callback has discarded, in that order

queueVars == <<q, cb, cbRaised, nFrames, lost, got, dropped>>

\* Queue.put_nowait(x) that takes no notice of maxsize
put_nowait_unbounded(qq, x) == [q |-> Append(qq, x), exc |-> "none"]

\* Queue.put_nowait(x): the queue after it and the exception it raises
put_nowait(qq, x) ==
    IF Len(qq) >= QUEUE_MAXSIZE THEN [q |-> qq, exc |-> "Full"]
    ELSE [q |-> Append(qq, x), exc |-> "none"]

\* Queue.get_nowait() that hands out the newest frame
get_nowait_newest(qq) ==
    IF qq = <<>> THEN [q |-> qq, exc |-> "Empty", item |-> 0]
    ELSE [q |-> SubSeq(qq, 1, Len(qq) - 1), exc |-> "none", item |-> qq[Len(qq)]]

\* Queue.get_nowait(): the queue after it, the exception it raises and the
\* frame it returns
get_nowait(qq) ==
    IF qq = <<>> THEN [q |-> qq, exc |-> "Empty", item |-> 0]
    ELSE [q |-> Tail(qq), exc |-> "none", item |-> Head(qq)]

\* Frames the loop has taken from the queue
Taken == nFrames - lost - Len(q) - (IF cb = "idle" THEN 0 ELSE 1)

\* The signal captured: every fourth frame has a beat on it
FrameX(n) == IF n % 4 = 0 THEN BeatX ELSE FillX

MaxFrames == 10      \* frames captured per run of SpecQueue
MaxTimeouts == 2     \* get() timeouts per run of SpecQueue

\* The callback is called with a frame: its first put_nowait
Capture ==
    /\ cb = "idle"
    /\ nFrames < MaxFrames
    /\ nFrames' = nFrames + 1
    /\ \E r \in {put_nowait(q, nFrames + 1)} :
         /\ q' = r.q
         /\ cb' = IF r.exc = "Full" THEN "drop" ELSE "idle"
         /\ cbRaised' = (cbRaised \/ r.exc \notin {"none", "Full"})
    /\ UNCHANGED <<lost, got, dropped, tempoVars>>

\* except queue.Full: get_nowait() drops the oldest frame (queue.Empty: pass)
DropOldest ==
    /\ cb = "drop"
    /\ \E r \in {get_nowait(q)} :
         /\ q' = r.q
         /\ lost' = IF r.exc = "none" THEN lost + 1 ELSE lost
         /\ dropped' = IF r.exc = "none" THEN Append(dropped, r.item) ELSE dropped
         /\ cbRaised' = (cbRaised \/ r.exc \notin {"none", "Empty"})
    /\ cb' = "retry"
    /\ UNCHANGED <<nFrames, got, tempoVars>>

\* then put_nowait once more (queue.Full: pass, the frame is lost)
PutAgain ==
    /\ cb = "retry"
    /\ \E r \in {put_nowait(q, nFrames)} :
         /\ q' = r.q
         /\ lost' = IF r.exc = "none" THEN lost ELSE lost + 1
         /\ dropped' = IF r.exc = "none" THEN dropped ELSE Append(dropped, nFrames)
         /\ cbRaised' = (cbRaised \/ r.exc \notin {"none", "Full"})
    /\ cb' = "idle"
    /\ UNCHANGED <<nFrames, got, tempoVars>>

\* A step of the callback (it waits for nothing)
CallbackStep == DropOldest \/ PutAgain

\* The loop's get() returns the oldest frame, one hop after its last
\* iteration, and the loop analyses it
Consume ==
    /\ q # <<>>
    /\ q' = Tail(q)
    /\ got' = Append(got, Head(q))
    /\ Iterate(now + HOP_MS, FrameX(Head(q)))
    /\ nIter' = nIter + 1
    /\ UNCHANGED <<cb, cbRaised, nFrames, lost, dropped, haveAubio, prog>>

\* The loop's get() times out on the empty queue
ConsumeTimeout ==
    /\ q = <<>>
    /\ nIter - Taken < MaxTimeouts
    /\ IterateEmpty(now + GET_TIMEOUT_MS)
    /\ nIter' = nIter + 1
    /\ UNCHANGED <<queueVars, haveAubio, prog>>

\* The queue of a detector just started
QueueFresh ==
    /\ q = <<>>
    /\ cb = "idle"
    /\ cbRaised = FALSE
    /\ nFrames = 0
    /\ lost = 0
    /\ got = <<>>
    /\ dropped = <<>>

-----------------------------------------------------------------------------
(* The detector's life: start_audio/stop_audio on the main thread, run() on    *)
(* the detector thread, the callback on the audio thread                       *)

VARIABLES
    th,          \* where the detector thread is: "new" (not started), "started"
                 \* (run() not yet begun), "opening", "loop" (at the while
                 \* test), "get" (in the loop's body), "done"
    running,     \* self._running: the Event's flag
    stream,      \* the sd.InputStream: "closed" or "open"
    stopped,     \* stop() has been called
    actor        \* the thread that made the last step

lifeVars == <<th, running, stream, stopped, actor>>

\* Event.set() and Event.clear(): the flag after them
event_set(flag) == TRUE
event_clear(flag) == FALSE

\* stop()
stop(flag) == event_clear(flag)

\* start_audio(): the detector just constructed is reset, then started
StartAudio ==
    /\ th = "new"
    /\ det' = reset(det)
    /\ th' = "started"
    /\ actor' = "main"
    /\ UNCHANGED <<running, stream, stopped, last_energy_ts, now, out, haveAubio,
                   prog, nIter, recent, queueVars>>

\* A stop_audio() that also resets the detector it stops
StopAudio_resets ==
    /\ th # "new"
    /\ ~stopped
    /\ running' = FALSE
    /\ stopped' = TRUE
    /\ det' = reset(det)
    /\ actor' = "main"
    /\ UNCHANGED <<th, stream, last_energy_ts, now, out, haveAubio, prog, nIter,
                   recent, queueVars>>

\* stop_audio(): stop() clears the flag; the app then forgets the detector
StopAudio ==
    /\ th # "new"
    /\ ~stopped
    /\ running' = stop(running)
    /\ stopped' = TRUE
    /\ actor' = "main"
    /\ UNCHANGED <<th, stream, tempoVars, queueVars>>

\* run() begins: self._running.set(); last_energy_ts = time.time()
RunBegins ==
    /\ th = "started"
    /\ running' = event_set(running)
    /\ last_energy_ts' = now
    /\ th' = "opening"
    /\ actor' = "analysis"
    /\ UNCHANGED <<stream, stopped, det, now, out, haveAubio, prog, nIter, recent,
                   queueVars>>

\* with sd.InputStream(...): the stream is opened and capture begins
OpenStream ==
    /\ th = "opening"
    /\ stream' = "open"
    /\ th' = "loop"
    /\ actor' = "analysis"
    /\ UNCHANGED <<running, stopped, tempoVars, queueVars>>

\* while self._running.is_set(): into the body, or out of the loop and of the
\* with block, which closes the stream
LoopTest ==
    /\ th = "loop"
    /\ IF running
       THEN th' = "get" /\ stream' = stream
       ELSE th' = "done" /\ stream' = "closed"
    /\ actor' = "analysis"
    /\ UNCHANGED <<running, stopped, tempoVars, queueVars>>

\* A get() that times out once the timeouts counted in a run have been made:
\* the detector is left as it is
IdlePoll ==
    /\ q = <<>>
    /\ nIter - Taken >= MaxTimeouts
    /\ UNCHANGED <<tempoVars, queueVars>>

\* The loop's body: one iteration, with or without a frame
LoopBody ==
    /\ th = "get"
    /\ \/ Consume
       \/ ConsumeTimeout
       \/ IdlePoll
    /\ th' = "loop"
    /\ actor' = "analysis"
    /\ UNCHANGED <<running, stream, stopped>>

\* The audio thread calls the callback while the stream is open
CallbackBegins ==
    /\ stream = "open"
    /\ Capture
    /\ actor' = "capture"
    /\ UNCHANGED <<th, running, stream, stopped>>

\* The callback goes on
CallbackGoesOn ==
    /\ CallbackStep
    /\ actor' = "capture"
    /\ UNCHANGED <<th, running, stream, stopped>>

\* A step of the detector thread
ThreadStep == RunBegins \/ OpenStream \/ LoopTest \/ LoopBody

\* No detector thread yet
LifeIdle ==
    /\ th = "new"
    /\ running = FALSE
    /\ stream = "closed"
    /\ stopped = FALSE
    /\ actor = "main"

\* The detector thread is in its loop
LifeRunning ==
    /\ th = "loop"
    /\ running = TRUE
    /\ stream = "open"
    /\ stopped = FALSE
    /\ actor = "analysis"

-----------------------------------------------------------------------------
(* Scenes: a reset detector and a fresh engine given a fixed run of beats.    *)
(* Each beat is registered with the detector at its time; the engine gets the *)
(* bpm of the detector's BeatEvent and the scene's rms, high and bass (and no *)
(* onset strength, as handle_beat passes none).                               *)

VARIABLES
    scene        \* [id, drops, builds, path]: the scene played (0: none), the
                 \* beats so far on which drop-detected and build-detected were
                 \* true, and the sections the engine has been in, in order

sceneVars == <<scene>>

SceneBeat(dt, rms, high, bass) == [dt |-> dt, rms |-> rms, high |-> high, bass |-> bass]

\* 9 beats 0.5 s apart with flat rms = 0.05
FlatScene == [i \in 1..9 |-> SceneBeat(500, 50000, 0, 0)]

\* 12 beats whose rms rises linearly from 0.05 to 0.20 and whose high band
\* rises (its EMA is 1.5 times its rolling average from the third beat on)
RisingScene ==
    [i \in 1..12 |-> SceneBeat(500, 50000 + (150000 * (i - 1)) \div 11,
                               20000 + 10000 * (i - 1), 20000)]

\* 8 beats of rising energy (mean 0.085), 3 beats at 40% of that mean, then
\* one beat at 3 times the mean of the 11 before it, with ten times the bass
DropScene ==
    [i \in 1..12 |->
        IF i <= 8 THEN SceneBeat(500, 50000 + 10000 * (i - 1), 20000, 20000)
        ELSE IF i <= 11 THEN SceneBeat(500, 34000, 20000, 20000)
        ELSE SceneBeat(500, 213273, 20000, 200000)]

Scenes == <<FlatScene, RisingScene, DropScene>>

\* The next beat of the scene
PlayScene ==
    /\ scene.id \in DOMAIN Scenes
    /\ nBeats < Len(Scenes[scene.id])
    /\ \E b \in {Scenes[scene.id][nBeats + 1]} :
         \E r \in {registered(det, now + b.dt, b.rms)} :
           /\ r.events # <<>>
           /\ now' = now + b.dt
           /\ det' = r.det
           /\ out' = [op |-> "beat", beat_now |-> TRUE, accepted |-> TRUE,
                      bpm_new |-> r.bpm_new, event |-> r.events]
           /\ FeedEvent([bpm |-> r.events[1].bpm, rms |-> b.rms,
                         high |-> b.high, bass |-> b.bass, onset |-> 0])
    /\ scene' = [scene EXCEPT
                   !.drops = IF eng'.c_drop THEN @ + 1 ELSE @,
                   !.builds = IF eng'.c_build THEN @ + 1 ELSE @,
                   !.path = IF eng'.section # eng.section
                            THEN Append(@, eng'.section) ELSE @]
    /\ UNCHANGED <<nOps, track, seg, last_energy_ts, haveAubio, prog, nIter, recent>>

\* No scene is played
NoScene == scene = [id |-> 0, drops |-> 0, builds |-> 0, path |-> <<"VERSE">>]

-----------------------------------------------------------------------------
(* Specifications *)

vars == <<engineVars, tempoVars, queueVars, lifeVars, sceneVars>>

\* A freshly constructed engine
EngineFresh ==
    /\ eng = EngineInit
    /\ calls = <<>>
    /\ lastOp = "init"
    /\ nBeats = 0
    /\ nOps = 0
    /\ track = 1
    /\ seg = 0
    /\ raised = "none"
    /\ seen = NoBeatSeen

\* A detector that is constructed and not started
DetectorIdle ==
    /\ DetectorFresh
    /\ haveAubio = FALSE
    /\ prog = [rhythm |-> 1, seg |-> 0, pos |-> 0]

\* A track of some shape played to an engine whose preset, if any, was
\* enabled before the first beat
InitBeats ==
    /\ eng \in {EngineInit, enable_preset(EngineInit, "Beat: Palette Cycle")}
    /\ calls = <<>>
    /\ lastOp = "init"
    /\ nBeats = 0
    /\ nOps = 0
    /\ track \in 1..Len(TrackShapes)
    /\ seg = 0
    /\ raised = "none"
    /\ seen = NoBeatSeen
    /\ DetectorIdle
    /\ QueueFresh
    /\ LifeIdle
    /\ NoScene

NextBeats == Beat /\ UNCHANGED <<tempoVars, queueVars, lifeVars, sceneVars>>

SpecBeats == InitBeats /\ [][NextBeats]_vars

\* A freshly constructed engine at the control surface
InitControl ==
    /\ eng = EngineInit
    /\ calls = <<>>
    /\ lastOp = "init"
    /\ nBeats = 0
    /\ nOps = 0
    /\ track = 1
    /\ seg = 0
    /\ raised = "none"
    /\ seen = NoBeatSeen
    /\ DetectorIdle
    /\ QueueFresh
    /\ LifeIdle
    /\ NoScene

NextControl ==
    /\ \/ CtlBeat
       \/ SetStyle
       \/ SetPalette
       \/ SetManualTier
       \/ EnablePreset
       \/ DisablePreset
       \/ ForceBuild
       \/ ForceDrop
       \/ SetSensitivity
       \/ ResetMusicContext
    /\ UNCHANGED <<tempoVars, queueVars, lifeVars, sceneVars>>

SpecControl == InitControl /\ [][NextControl]_vars

\* Beats at any tempo, to a fresh engine with or without the preset that sends
\* an animation, and one force_drop() at most
InitSpeed ==
    /\ eng \in {EngineInit, enable_preset(EngineInit, "Beat: Downbeat Rainbow")}
    /\ calls = <<>>
    /\ lastOp = "init"
    /\ nBeats = 0
    /\ nOps = 0
    /\ track = 1
    /\ seg = 0
    /\ raised = "none"
    /\ seen = NoBeatSeen
    /\ DetectorIdle
    /\ QueueFresh
    /\ LifeIdle
    /\ NoScene

NextSpeed ==
    /\ \/ SpeedBeat
       \/ nOps = 0 /\ ForceDrop
    /\ UNCHANGED <<tempoVars, queueVars, lifeVars, sceneVars>>

SpecSpeed == InitSpeed /\ [][NextSpeed]_vars

\* Beats with the manual tier set and cleared between them
NextManual ==
    /\ \/ CtlBeat
       \/ SetManualTier
    /\ UNCHANGED <<tempoVars, queueVars, lifeVars, sceneVars>>

SpecManual == InitControl /\ [][NextManual]_vars

\* The detector of either build, fed one of the rhythms
InitTempo ==
    /\ DetectorFresh
    /\ haveAubio \in BOOLEAN
    /\ prog \in {[rhythm |-> r, seg |-> 0, pos |-> 0] : r \in 1..Len(Rhythms)}
    /\ EngineFresh
    /\ QueueFresh
    /\ LifeRunning
    /\ NoScene

NextTempo ==
    /\ \/ Analyse
       \/ Starve
       \/ Reset
    /\ UNCHANGED <<engineVars, queueVars, lifeVars, sceneVars>>

SpecTempo == InitTempo /\ [][NextTempo]_vars

\* The detector fed a long run: a tempo change from 120 BPM to half time (60
\* BPM, outside the window) or the other way round, or loud beats followed by
\* softer ones
InitLongRun ==
    /\ DetectorFresh
    /\ haveAubio \in BOOLEAN
    /\ prog \in {[rhythm |-> r, seg |-> 0, pos |-> 0] : r \in {1, 13, 14}}
    /\ EngineFresh
    /\ QueueFresh
    /\ LifeRunning
    /\ NoScene

NextLongRun == LongAnalyse /\ UNCHANGED <<engineVars, queueVars, lifeVars, sceneVars>>

SpecLongRun == InitLongRun /\ [][NextLongRun]_vars

\* The callback and the loop of a started detector of either build
InitQueue ==
    /\ QueueFresh
    /\ DetectorFresh
    /\ haveAubio \in BOOLEAN
    /\ prog = [rhythm |-> 1, seg |-> 0, pos |-> 0]
    /\ EngineFresh
    /\ LifeRunning
    /\ NoScene

NextQueue ==
    /\ \/ Capture
       \/ DropOldest
       \/ PutAgain
       \/ Consume
       \/ ConsumeTimeout
    /\ UNCHANGED <<engineVars, lifeVars, sceneVars>>

SpecQueue == InitQueue /\ [][NextQueue]_vars

\* Beats given to an engine, with or without a preset, whose diagnostic sink
\* can fail at any beat
InitSink ==
    /\ eng \in {EngineInit} \cup {enable_preset(EngineInit, name) : name \in PresetInputs}
    /\ calls = <<>>
    /\ lastOp = "init"
    /\ nBeats = 0
    /\ nOps = 0
    /\ track = 1
    /\ seg = 0
    /\ raised = "none"
    /\ seen = NoBeatSeen
    /\ DetectorIdle
    /\ QueueFresh
    /\ LifeIdle
    /\ NoScene

NextSink == LoggedBeat /\ UNCHANGED <<tempoVars, queueVars, lifeVars, sceneVars>>

SpecSink == InitSink /\ [][NextSink]_vars

\* A detector of either build constructed by start_audio, from then on
InitLife ==
    /\ LifeIdle
    /\ QueueFresh
    /\ DetectorFresh
    /\ haveAubio \in BOOLEAN
    /\ prog = [rhythm |-> 1, seg |-> 0, pos |-> 0]
    /\ EngineFresh
    /\ NoScene

NextLife ==
    /\ \/ StartAudio
       \/ StopAudio
       \/ RunBegins
       \/ OpenStream
       \/ LoopTest
       \/ LoopBody
       \/ CallbackBegins
       \/ CallbackGoesOn
    /\ UNCHANGED <<engineVars, sceneVars>>

\* Every thread that can take a step eventually takes one: the detector
\* thread is scheduled, and its get() returns or times out
SpecLife ==
    InitLife /\ [][NextLife]_vars /\ WF_vars(ThreadStep /\ UNCHANGED <<engineVars, sceneVars>>)

\* A track played to an engine that may be forced into BUILD or DROP before the
\* first beat and into DROP after the eighth
ForcedStart ==
    /\ lastOp \in {"init", "on_beat"}
    /\ \/ nBeats = 0 /\ ForceBuild
       \/ nBeats \in {0, 8} /\ ForceDrop

NextSections ==
    /\ \/ Beat
       \/ ForcedStart
    /\ UNCHANGED <<tempoVars, queueVars, lifeVars, sceneVars>>

SpecSections == InitBeats /\ [][NextSections]_vars

\* A track with one reset_music_context() between two of its beats
ResetMidTrack ==
    /\ lastOp = "on_beat"
    /\ nOps = 0
    /\ nBeats \in {4, 8}
    /\ ResetMusicContext

NextReset ==
    /\ \/ Beat
       \/ ResetMidTrack
    /\ UNCHANGED <<tempoVars, queueVars, lifeVars, sceneVars>>

SpecReset == InitBeats /\ [][NextReset]_vars

\* A long track at one level, played to a fresh engine with or without preset
InitGrid ==
    /\ eng \in {EngineInit} \cup {enable_preset(EngineInit, name) : name \in PresetInputs}
    /\ calls = <<>>
    /\ lastOp = "init"
    /\ nBeats = 0
    /\ nOps = 0
    /\ track \in CtlLevels
    /\ seg = 0
    /\ raised = "none"
    /\ seen = NoBeatSeen
    /\ DetectorIdle
    /\ QueueFresh
    /\ LifeIdle
    /\ NoScene

NextGrid == GridBeat /\ UNCHANGED <<tempoVars, queueVars, lifeVars, sceneVars>>

SpecGrid == InitGrid /\ [][NextGrid]_vars

\* One of the scenes, played to a reset detector and a fresh engine of any
\* style and palette
InitScenes ==
    /\ scene \in {[id |-> k, drops |-> 0, builds |-> 0, path |-> <<"VERSE">>] :
                    k \in DOMAIN Scenes}
    /\ eng \in {set_palette(set_style(EngineInit, st), pal) :
                  st \in STYLES, pal \in PaletteInputs}
    /\ calls = <<>>
    /\ lastOp = "init"
    /\ nBeats = 0
    /\ nOps = 0
    /\ track = 1
    /\ seg = 0
    /\ raised = "none"
    /\ seen = NoBeatSeen
    /\ DetectorIdle
    /\ QueueFresh
    /\ LifeIdle

NextScenes == PlayScene /\ UNCHANGED <<queueVars, lifeVars>>

SpecScenes == InitScenes /\ [][NextScenes]_vars

-----------------------------------------------------------------------------
(* Properties of the section state machine and the energy tier *)

\* C1: whenever on_beat takes the section from VERSE to another section, at
\* least 8 beats had elapsed in VERSE (section_beats >= 8).
C1_VerseDwell ==
    [][(lastOp' = "on_beat" /\ eng.section = "VERSE" /\ eng'.section # "VERSE")
         => eng.section_beats >= MIN_SECTION_BEATS("VERSE")]_vars

\* C2 (as amended): on a beat on which no preset is active, drop-detected and
\* build-detected are both true, the cooldown is 0 and the section was not
\* DROP, the section after on_beat is DROP.
C2_DropWins ==
    [][(lastOp' = "on_beat" /\ ~PresetOn(eng)
          /\ eng'.c_drop /\ eng'.c_build /\ eng'.cooldown = 0 /\ eng.section # "DROP")
         => eng'.section = "DROP"]_vars

\* C2 as stated: the same on every beat, a preset being active or not.
C2_DropWinsAlways ==
    [][(lastOp' = "on_beat"
          /\ eng'.c_drop /\ eng'.c_build /\ eng'.cooldown = 0 /\ eng.section # "DROP")
         => eng'.section = "DROP"]_vars

\* A beat on which both detectors fired and the engine entered DROP
C2_DropTaken ==
    /\ lastOp = "on_beat"
    /\ eng.c_drop /\ eng.c_build /\ eng.cooldown = 0
    /\ eng.section = "DROP" /\ eng.section_beats = 0 /\ eng.prev_section # "DROP"
    /\ TierOf(eng) = HIGH

\* C3: once the tier has been HIGH for several beats and its hold counter has
\* run down to 0, the tier is still HIGH after the next beat, whatever the raw
\* classification of that beat.
C3_HighHeld ==
    [][(lastOp' = "on_beat" /\ eng.manual_tier = NoTier
          /\ eng.tier = HIGH /\ eng.tier_hold = 0 /\ eng.tier_beats >= 4)
         => eng'.tier = HIGH]_vars

-----------------------------------------------------------------------------
(* Properties of reset_music_context *)

\* What of an engine can be observed: every field but _prev_section, which
\* the code writes and never reads
Observable(e) == [e EXCEPT !.prev_section = "VERSE"]

\* A freshly constructed engine on which e's settings have been set
Configured(e) ==
    LET e1 == set_style(EngineInit, e.style)
        e2 == set_palette(e1, e.palette_name)
        e3 == set_manual_tier(e2, e.manual_tier)
        e4 == IF e.preset_active THEN enable_preset(e3, e.preset_name) ELSE disable_preset(e3)
    IN  set_sensitivity(e4, e.sensitivity_scale)

\* What a beat shows of an engine: tier, section, effect, lighting calls
Shown(e, ev, rnd) ==
    LET e1 == on_beat(e, ev, rnd)
    IN  <<TierOf(e1), e1.section, e1.effect, on_beat_calls(e, ev, rnd)>>

\* C4 (as amended): after reset_music_context() the engine is, in every field
\* that is ever read, a freshly constructed engine on which the same style,
\* palette, manual tier, preset and sensitivity scale have been set; so both
\* show the same tiers, sections, effects and lighting calls on every beat.
C4_ResetIsFreshConfigured ==
    lastOp = "reset_music_context"
      => /\ Observable(eng) = Observable(Configured(eng))
         /\ \A k \in DOMAIN BeatInputs : \A rnd \in 1..3 :
              Shown(eng, BeatInputs[k], rnd) = Shown(Configured(eng), BeatInputs[k], rnd)

\* C4 as stated: after reset_music_context() the next beat shows the same
\* tier, section, effect and lighting calls as on a freshly constructed engine.
C4_ResetIsFresh ==
    lastOp = "reset_music_context"
      => \A k \in DOMAIN BeatInputs : \A rnd \in 1..3 :
           Shown(eng, BeatInputs[k], rnd) = Shown(EngineInit, BeatInputs[k], rnd)

\* A reset of an engine that had played beats and been given another palette
C4_ResetAfterUse ==
    /\ lastOp = "reset_music_context"
    /\ nBeats >= 1
    /\ eng.palette_name # "ND"
    /\ eng.beat = 0

-----------------------------------------------------------------------------
(* Properties of the tempo estimator *)

\* The tempo state of _register_beat
TempoState(d) ==
    <<d.beats, d.last_beat_ts, d.rms_peak, d.bpm_stable, d.deviation_beats>>

\* C5: any two consecutive accepted beats are at least 250 ms apart; a
\* candidate less than 250 ms after the last accepted beat is not accepted,
\* and a candidate that is not accepted changes no tempo state and produces
\* no BeatEvent.
C5_Refractory ==
    /\ [](\A i \in 1..(Len(det.beats) - 1) : det.beats[i + 1] - det.beats[i] >= REFRACTORY_MS)
    /\ [][(out'.op = "frame" /\ out'.beat_now)
            => /\ (det.last_beat_ts # NoTime /\ now' - det.last_beat_ts < REFRACTORY_MS)
                    => ~out'.accepted
               /\ ~out'.accepted
                    => TempoState(det') = TempoState(det) /\ out'.event = NoEvent]_vars

\* A candidate rejected while a tempo is locked
C5_Rejected ==
    /\ out.op = "frame" /\ out.beat_now /\ ~out.accepted
    /\ det.bpm_stable > 0
    /\ now - det.last_beat_ts < REFRACTORY_MS

\* The 0.75/0.25 smoothing of the lock
Smoothed(stable, bpm_new) == (3 * stable + bpm_new) \div 4

\* This step judged a valid estimate against a lock
Judged == out'.op = "frame" /\ out'.accepted /\ out'.bpm_new > 0 /\ det.bpm_stable > 0

\* This step replaced the lock outright by the estimate
Jumped ==
    /\ Judged
    /\ det'.bpm_stable = out'.bpm_new
    /\ det'.bpm_stable # Smoothed(det.bpm_stable, out'.bpm_new)

PeriodOf(bpm) == 600000000 \div bpm

\* A spacing of dt ms is that of twice the tempo bpm, or of half of it
DoubleOrHalf(dt, bpm) ==
    \/ Abs(200 * dt - PeriodOf(bpm)) <= 1
    \/ Abs(50 * dt - PeriodOf(bpm)) <= 1

\* The raw tempo is an octave of the tempo bpm
RawAtOctave(raw, bpm) == raw \div 2 = bpm \/ 2 * raw = bpm

\* C7 (as amended): with a tempo locked at L, an accepted beat whose spacing
\* is that of 2L or L/2 makes the lock jump only if the deviation counter
\* already stood at 4 (no immediate re-lock); and when the raw tempo of the
\* estimate is itself 2L or L/2 the estimate is folded to L, the lock stays
\* and the counter is not incremented.  (The counter can be incremented by
\* such a beat when lags across the old and the new spacing mix the periods.)
C7_NoImmediateRelock ==
    [][(out'.op = "frame" /\ out'.accepted /\ det.bpm_stable > 0
          /\ det.last_beat_ts # NoTime
          /\ DoubleOrHalf(now' - det.last_beat_ts, det.bpm_stable))
         => /\ Jumped => det.deviation_beats = UNLOCK_NEEDED - 1
            /\ RawAtOctave(bpm_raw(det'.beats), det.bpm_stable)
                 => /\ out'.bpm_new = det.bpm_stable
                    /\ det'.bpm_stable = det.bpm_stable
                    /\ det'.deviation_beats <= det.deviation_beats]_vars

\* C7 as stated: with a tempo locked at L, an accepted beat whose spacing is
\* that of 2L or L/2 neither makes the lock jump nor increments the deviation
\* counter.
C7_OctaveNeverDeviates ==
    [][(out'.op = "frame" /\ out'.accepted /\ det.bpm_stable > 0
          /\ det.last_beat_ts # NoTime
          /\ DoubleOrHalf(now' - det.last_beat_ts, det.bpm_stable))
         => ~Jumped /\ det'.deviation_beats <= det.deviation_beats]_vars

\* A beat at twice the locked tempo whose estimate was folded to the lock
C7_FoldedToLock ==
    /\ out.op = "frame" /\ out.accepted /\ det.bpm_stable > 0
    /\ Len(det.beats) >= 2
    /\ Abs(200 * (det.beats[Len(det.beats)] - det.beats[Len(det.beats) - 1])
             - PeriodOf(det.bpm_stable)) <= 1
    /\ bpm_raw(det.beats) \div 2 = det.bpm_stable
    /\ out.bpm_new = det.bpm_stable
    /\ recent # <<>> /\ ~recent[Len(recent)]

\* The mean beat period of the rhythm's first segment, in ms
FirstPeriod(r) ==
    LET c == Rhythms[r][1]
    IN  SumSeq([i \in 1..Len(c) |-> c[i].dt])
          \div Cardinality({i \in 1..Len(c) : c[i].x.onset})

\* C8: from a reset detector fed beats of a constant period P within
\* [60/180 s, 60/70 s], from the 10th accepted beat on the locked BPM is
\* within 2% of 60/P.
C8_Converges ==
    LET P == FirstPeriod(prog.rhythm)
    IN  (prog.seg = 1 /\ 3 * P >= 1000 /\ 7 * P <= 6000 /\ Len(det.beats) >= 10)
          => det.bpm_stable > 0 /\ Abs(det.bpm_stable * P - 6000000) <= 120000

\* C9: the locked BPM is 0 or within [70, 180], and so is the bpm of every
\* BeatEvent.
C9_LockInWindow ==
    /\ det.bpm_stable = 0 \/ (BPM_MIN <= det.bpm_stable /\ det.bpm_stable <= BPM_MAX)
    /\ \A i \in 1..Len(out.event) :
         out.event[i].bpm = 0 \/ (BPM_MIN <= out.event[i].bpm /\ out.event[i].bpm <= BPM_MAX)

\* A beat judged against a lock it left as it was, whose best candidate lay
\* above the window and was folded into it
C9_FoldedIntoWindow ==
    /\ out.op = "frame" /\ out.accepted /\ out.bpm_new > 0
    /\ det.bpm_stable > 0
    /\ det.deviation_beats >= 1 /\ recent # <<>> /\ recent[Len(recent)]
    /\ best_candidate(bpm_raw(det.beats), det.bpm_stable) > BPM_MAX
    /\ out.event # NoEvent

-----------------------------------------------------------------------------
(* Properties of the capture queue *)

\* C10: under every interleaving of the callback and the loop the queue holds
\* at most 8 frames, no exception escapes the callback, and a callback that
\* has begun can always take its next step, whatever the loop does.
C10_BoundedNonBlocking ==
    /\ Len(q) <= QUEUE_MAXSIZE
    /\ ~cbRaised
    /\ cb # "idle" => ENABLED CallbackStep

\* The callback found the queue full, dropped the oldest frame and queued the
\* newest
C10_DroppedOldest ==
    /\ cb = "idle"
    /\ lost >= 1
    /\ Len(q) = QUEUE_MAXSIZE
    /\ q[Len(q)] = nFrames
    /\ nIter >= 1

\* The frames of a sequence, as a set
Range(s) == {s[i] : i \in DOMAIN s}

\* The sequence is in capture order (frame numbers strictly increasing)
InCaptureOrder(s) == \A i, j \in DOMAIN s : i < j => s[i] < s[j]

\* C11: under every interleaving, when the callback has returned the frame
\* it delivered last is in the queue or has been dequeued by the loop; a frame
\* the callback discards is the oldest queued frame at that moment; and the
\* loop dequeues the surviving frames in capture order (every captured frame
\* is queued, dequeued, discarded or still in the callback's hands).
C11_NewestKeptOldestDropped ==
    /\ [](cb = "idle" /\ nFrames >= 1 => nFrames \in Range(q) \cup Range(got))
    /\ [][dropped' # dropped
            => /\ q # <<>>
               /\ dropped' = Append(dropped, Head(q))
               /\ \A x \in Range(q) : Head(q) <= x]_vars
    /\ [](/\ InCaptureOrder(got \o q)
          /\ Range(got) \cup Range(q) \cup Range(dropped)
               = 1..(IF cb = "idle" THEN nFrames ELSE nFrames - 1)
          /\ Range(got) \cap Range(dropped) = {})

\* The loop has dequeued a frame captured after one that was discarded, and
\* the callback has returned
C11_GotAfterDrop ==
    /\ cb = "idle"
    /\ dropped # <<>> /\ got # <<>>
    /\ got[Len(got)] > dropped[Len(dropped)]
    /\ \E i \in DOMAIN got : got[i] < dropped[1]

-----------------------------------------------------------------------------
(* Properties of the detector's life *)

\* C12: once stop() has been called after start(), the loop eventually
\* exits and the input stream is closed, whenever stop() came.
C12_StopObserved == stopped ~> (th = "done" /\ stream = "closed")

\* A stop() that finds the flag set is observed: the loop makes at most the
\* iteration it is in, exits and closes the stream
StopWhileRunning ==
    /\ [][(stopped' /\ ~stopped /\ running) => ~running']_vars
    /\ (stopped /\ ~running /\ th \notin {"new", "started"})
         ~> (th = "done" /\ stream = "closed")

-----------------------------------------------------------------------------
(* Properties of the diagnostic sink *)

\* C13: when DiagnosticLogger.log raises while a beat is processed, on_beat
\* still returns normally (no exception leaves it), on the preset path and on
\* the normal path.
C13_SinkFailureSwallowed == lastOp = "on_beat" => raised = "none"

-----------------------------------------------------------------------------
(* Properties of the effect selection *)

\* C14: in every reachable engine state the one active effect is a member of
\* the effect catalogue of the current section (so a BUILD effect is active
\* whenever the section is BUILD).
C14_EffectOfSection == eng.effect \in Range(SECTION_EFFECTS(eng.section))

\* A beat played in a BUILD section that was forced, with a BUILD effect
C14_BuildEffectOnBeat ==
    /\ lastOp = "on_beat"
    /\ nOps >= 1
    /\ eng.section = "BUILD"
    /\ eng.effect \in {"AB_CHASE", "STROBE_RAMP", "COLOR_RISE"}
    /\ eng.fx_beat >= 1

-----------------------------------------------------------------------------
(* Scenes *)

\* C15: in the scene of 9 beats exactly 0.5 s apart with flat rms = 0.05 the
\* energy tier is LOW or MED and the section is VERSE after every beat, and
\* after the 9th beat the locked BPM is within 120 +/- 2.
C15_FlatScene ==
    (scene.id = 1 /\ lastOp = "on_beat")
      => /\ TierOf(eng) \in {LOW, MED}
         /\ eng.section = "VERSE"
         /\ nBeats = 9 => Abs(det.bpm_stable - 12000) <= 200

\* The flat scene played to its end, its tempo locked
C15_FlatSceneDone ==
    /\ scene.id = 1
    /\ nBeats = 9
    /\ Len(det.beats) = 9
    /\ det.bpm_stable > 0
    /\ eng.beat = 9

\* C16: in the scene of 12 beats with rms rising linearly from 0.05 to 0.20
\* and a rising high band, there is a beat on which build-detected is true,
\* the only section change is from VERSE to BUILD, and a BUILD effect is then
\* active.
C16_RisingScene ==
    (scene.id = 2 /\ nBeats = 12)
      => /\ scene.builds >= 1
         /\ scene.path = <<"VERSE", "BUILD">>
         /\ eng.effect \in Range(SECTION_EFFECTS("BUILD"))

\* C17: in the scene of 8 rising beats, a 3-beat dip and a spike with bass,
\* drop-detected is true on exactly one beat, the section becomes DROP on
\* that beat, and DROP is not entered while the cooldown counter is above 0.
C17_DropScene ==
    /\ []((scene.id = 3 /\ nBeats = 12) => scene.drops = 1)
    /\ [][(scene.id = 3 /\ eng'.c_drop) => eng'.section = "DROP"]_vars
    /\ [][(scene.id = 3 /\ eng.cooldown > 0 /\ eng.section # "DROP")
            => eng'.section # "DROP"]_vars

-----------------------------------------------------------------------------
(* The consumer *)

\* C18: an iteration of the loop that accepts a beat calls on_beat exactly
\* once, within that iteration, with that beat's timestamp, which is later
\* than the time of every earlier iteration (so the calls are in increasing
\* timestamp order); an iteration that rejects its candidate, has no onset or
\* gets no frame calls on_beat not at all.
C18_OneCallPerAcceptedBeat ==
    [][nIter' # nIter =>
         IF out'.op = "frame" /\ det'.last_beat_ts = now'
         THEN /\ out'.beat_now
              /\ Len(out'.event) = 1
              /\ out'.event[1].timestamp = now'
              /\ out'.event[1].timestamp > now
              /\ det'.beats # <<>> /\ det'.beats[Len(det'.beats)] = now'
         ELSE /\ out'.event = <<>>
              /\ \/ det'.beats = det.beats
                 \/ det'.beats = <<>>]_vars

\* The consumer was called for a beat that was not the first, after an
\* iteration that called it not
C18_CalledAgain ==
    /\ out.op = "frame"
    /\ Len(out.event) = 1
    /\ Len(det.beats) >= 3
    /\ out.event[1].timestamp = det.beats[Len(det.beats)]
    /\ now - det.beats[Len(det.beats) - 1] > HOP_MS

-----------------------------------------------------------------------------
(* Ownership *)

\* C19: once the detector thread has been started, a step of the capture
\* callback changes nothing of the detector but the frame queue, and the tempo
\* and analyzer fields and run()'s energy timestamp are changed by steps of
\* the analysis thread only.
C19_TempoOwnedByAnalysis ==
    [][th # "new" =>
         /\ actor' = "capture" => UNCHANGED <<det, last_energy_ts, running, th>>
         /\ (det' # det \/ last_energy_ts' # last_energy_ts) => actor' = "analysis"
         /\ q' # q => actor' \in {"capture", "analysis"}]_vars

\* The analysis thread has registered a beat while the callback was between
\* two of its queue calls, frames having been dropped before
C19_BeatDuringCallback ==
    /\ actor = "analysis"
    /\ th = "loop"
    /\ cb # "idle"
    /\ dropped # <<>>
    /\ out.event # <<>> /\ out.event[1].timestamp = now

-----------------------------------------------------------------------------
(* Presets *)

\* The lighting calls a preset may issue on one beat
PresetCalls(e) ==
    CASE e.preset_name = "Beat: White Flash" -> {<<Flash(70)>>}
      [] e.preset_name = "Beat: Palette Cycle" ->
            {<<Rgb("set_rgb", Pal(e)[i])>> : i \in DOMAIN Pal(e)}
      [] e.preset_name = "Beat: Alternate Base/Alt" ->
            {<<Rgb("set_rgb", ALT_COLOR)>>, <<Rgb("set_rgb", BASE_COLOR)>>}
      [] e.preset_name = "Beat: Downbeat Rainbow" ->
            {<<Rgb("set_rgb", BASE_COLOR)>>}
              \cup {<<Mode("set_mode", MODE_STROBE_RAINBOW, sp)>> : sp \in 0..255}
      [] OTHER -> {<<>>}

\* The energy EMAs of an engine
Emas(e) == <<e.ema_fast, e.ema_med, e.ema_long, e.high_ema, e.bass_ema, e.onset_ema>>

\* C20: an on_beat while a preset with a non-empty name is enabled leaves the
\* section, section_beats, the effect, fx_beat and fx_dur as they were and
\* issues only lighting calls of that preset (none for a name outside the
\* preset list); it adds 1 to the beat counter, updates the energy EMAs with
\* the beat's values, counts the cooldown down and recomputes the detector
\* flags.
C20_PresetBypass ==
    [][(lastOp' = "on_beat" /\ PresetOn(eng)) =>
         /\ eng'.section = eng.section
         /\ eng'.section_beats = eng.section_beats
         /\ eng'.effect = eng.effect
         /\ eng'.fx_beat = eng.fx_beat
         /\ eng'.fx_dur = eng.fx_dur
         /\ calls' \in PresetCalls(eng)
         /\ eng'.beat = eng.beat + 1
         /\ \E k \in DOMAIN BeatInputs : Emas(eng') = Emas(update_energy(eng, BeatInputs[k]))
         /\ Len(eng.fast_hist) < HIST_LEN => Len(eng'.fast_hist) = Len(eng.fast_hist) + 1
         /\ eng'.cooldown = Max(0, eng.cooldown - 1)
         /\ eng'.c_drop = detect_drop(eng')
         /\ eng'.c_build = detect_build(eng')
         /\ eng'.c_breakdown = detect_breakdown(eng')]_vars

\* A second beat under a preset, the cooldown counting down and the EMAs moving
C20_PresetBeat ==
    /\ lastOp = "on_beat"
    /\ PresetOn(eng)
    /\ eng.preset_name \in PRESET_NAMES
    /\ calls # <<>>
    /\ eng.beat >= 2
    /\ eng.cooldown \in 1..14
    /\ eng.ema_fast # eng.ema_med

-----------------------------------------------------------------------------
(* Manual triggers *)

\* C21: force_build() (force_drop()), in whatever state the engine is, and
\* without a beat, leaves the section BUILD (DROP), section_beats and fx_beat
\* 0, and an effect of the BUILD (DROP) catalogue active.
C21_ForceEnters ==
    [][/\ lastOp' = "force_build" =>
            /\ eng'.section = "BUILD"
            /\ eng'.section_beats = 0
            /\ eng'.fx_beat = 0
            /\ eng'.effect \in Range(SECTION_EFFECTS("BUILD"))
            /\ nBeats' = nBeats /\ eng'.beat = eng.beat
       /\ lastOp' = "force_drop" =>
            /\ eng'.section = "DROP"
            /\ eng'.section_beats = 0
            /\ eng'.fx_beat = 0
            /\ eng'.effect \in Range(SECTION_EFFECTS("DROP"))
            /\ nBeats' = nBeats /\ eng'.beat = eng.beat]_vars

\* force_build() called in DROP, one beat after it was entered
C21_BuildForcedFromDrop ==
    /\ lastOp = "force_build"
    /\ eng.prev_section = "DROP"
    /\ eng.section = "BUILD"
    /\ eng.beat >= 1
    /\ eng.cooldown = 15

-----------------------------------------------------------------------------
(* Tier hysteresis and CHORUS *)

\* C22: on_beat moves the section to CHORUS only on a beat up to which the
\* tier was HIGH on at least 6 on_beat calls in a row (the beat itself
\* counted, which asks less than 6 calls before it).
C22_ChorusAfterSixHigh ==
    [][(lastOp' = "on_beat" /\ eng'.section = "CHORUS" /\ eng.section # "CHORUS")
         => seen'.high_run >= 6]_vars

\* C23: one on_beat call advances the tier hysteresis by one step: the hold
\* counter goes down by at most 1 and the count of beats at the tier goes up
\* by at most 1 (building the diagnostic record changes none of the tier, the
\* hold counter and the count).
C23_OneTierStepPerBeat ==
    [][lastOp' = "on_beat" =>
         /\ eng.tier_hold - eng'.tier_hold <= 1
         /\ eng'.tier_beats - eng.tier_beats <= 1]_vars

-----------------------------------------------------------------------------
(* Automatic section changes *)

\* C24: on_beat moves the section to BREAKDOWN only from CHORUS after at
\* least 12 beats there or from DROP after at least 6 beats there, and only on
\* a beat whose tier is not HIGH; it moves the section to VERSE only from
\* BREAKDOWN after at least 8 beats there or from BUILD after at least 8 beats
\* there on a beat whose tier is LOW.
C24_BreakdownAndVerseEntries ==
    [][(lastOp' = "on_beat" /\ eng'.section # eng.section) =>
         /\ eng'.section = "BREAKDOWN" =>
              /\ \/ eng.section = "CHORUS" /\ eng.section_beats >= 12
                 \/ eng.section = "DROP" /\ eng.section_beats >= 6
              /\ seen'.tier # HIGH
         /\ eng'.section = "VERSE" =>
              \/ eng.section = "BREAKDOWN" /\ eng.section_beats >= 8
              \/ eng.section = "BUILD" /\ eng.section_beats >= 8 /\ seen'.tier = LOW]_vars

\* VERSE just entered by on_beat from a BREAKDOWN that on_beat had entered
C24_VerseAfterBreakdown ==
    /\ lastOp = "on_beat"
    /\ ~PresetOn(eng)
    /\ eng.section = "VERSE"
    /\ eng.prev_section = "BREAKDOWN"
    /\ eng.section_beats = 0

\* C25: on_beat moves the section out of DROP only after at least 6 beats
\* there, and from DROP to CHORUS only after at least 8 beats there.
C25_DropDwell ==
    [][(lastOp' = "on_beat" /\ eng.section = "DROP" /\ eng'.section # "DROP") =>
         /\ eng.section_beats >= 6
         /\ eng'.section = "CHORUS" => eng.section_beats >= 8]_vars

\* CHORUS just entered by on_beat from DROP
C25_ChorusAfterDrop ==
    /\ lastOp = "on_beat"
    /\ ~PresetOn(eng)
    /\ eng.section = "CHORUS"
    /\ eng.prev_section = "DROP"
    /\ eng.section_beats = 0

\* C26: on_beat moves the section to BUILD never from DROP, never on a beat
\* whose tier is LOW and never on a beat on which build-detected is false; a
\* step from DROP to BUILD is a force_build().
C26_BuildEntries ==
    [][/\ (lastOp' = "on_beat" /\ eng'.section = "BUILD" /\ eng.section # "BUILD") =>
            /\ eng.section # "DROP"
            /\ seen'.tier # LOW
            /\ eng'.c_build
       /\ (eng.section = "DROP" /\ eng'.section = "BUILD") => lastOp' = "force_build"]_vars

\* A beat in DROP on which build-detected was true and the tier not LOW
C26_BuildDetectedInDrop ==
    /\ lastOp = "on_beat"
    /\ ~PresetOn(eng)
    /\ eng.section = "DROP"
    /\ eng.section_beats >= 1
    /\ eng.c_build
    /\ seen.tier # LOW

\* C27: force_drop() leaves the cooldown at 16; every on_beat, under a preset
\* too, takes 1 off a cooldown above 0; and on_beat moves the section to DROP
\* only on a beat after whose decrement the cooldown is 0.
C27_DropCooldown ==
    [][/\ lastOp' = "force_drop" => eng'.cooldown = 16
       /\ lastOp' = "on_beat" =>
            /\ eng'.cooldown = Max(0, eng.cooldown - 1)
            /\ (eng'.section = "DROP" /\ eng.section # "DROP") => eng'.cooldown = 0]_vars

\* A beat outside DROP on which drop-detected was true while the cooldown of a
\* force_drop() was running
C27_DropDetectedInCooldown ==
    /\ lastOp = "on_beat"
    /\ ~PresetOn(eng)
    /\ eng.c_drop
    /\ eng.cooldown \in 1..15
    /\ eng.section # "DROP"

-----------------------------------------------------------------------------
(* Effect rotation *)

\* C28: after every on_beat without preset 0 <= fx_beat < fx_dur, and fx_dur is
\* 8 if the section is DROP and 16 otherwise; on a beat that changes no
\* section and on which fx_beat reaches fx_dur, an effect of the section's
\* catalogue is drawn and fx_beat is 0 again, section_beats having advanced by
\* the beat only; on a beat that changes no section and on which fx_beat stays
\* below fx_dur, the effect stays and fx_beat advances by 1.
C28_EffectExpiry ==
    [][(lastOp' = "on_beat" /\ ~PresetOn(eng)) =>
         /\ 0 <= eng'.fx_beat /\ eng'.fx_beat < eng'.fx_dur
         /\ eng'.fx_dur = IF eng'.section = "DROP" THEN 8 ELSE 16
         /\ (eng'.section = eng.section /\ eng.fx_beat + 1 >= eng.fx_dur) =>
              /\ eng'.fx_beat = 0
              /\ eng'.effect \in Range(SECTION_EFFECTS(eng.section))
              /\ eng'.pi # eng.pi
              /\ eng'.section_beats = eng.section_beats + 1
         /\ (eng'.section = eng.section /\ eng.fx_beat + 1 < eng.fx_dur) =>
              /\ eng'.fx_beat = eng.fx_beat + 1
              /\ eng'.effect = eng.effect]_vars

\* The effect of a DROP has run out on the section's 8th beat
C28_DropEffectExpired ==
    /\ lastOp = "on_beat"
    /\ ~PresetOn(eng)
    /\ eng.section = "DROP"
    /\ eng.section_beats = 8
    /\ eng.fx_beat = 0

\* A step that draws an effect: force_build(), force_drop(), or an on_beat
\* without preset that changes the section or on which the effect runs out
Drawn ==
    \/ lastOp' \in {"force_build", "force_drop"}
    \/ /\ lastOp' = "on_beat"
       /\ ~PresetOn(eng)
       /\ eng'.section # eng.section \/ eng.fx_beat + 1 >= eng.fx_dur

\* C29: every draw of an effect leaves an effect other than the one active
\* before it, and adds 1 to the palette index (on a phrase boundary the
\* accent and the effect may add to it as well).
C29_DrawChangesEffect ==
    [][Drawn =>
         /\ eng'.effect # eng.effect
         /\ IF lastOp' = "on_beat" /\ IsPhrase(eng'.beat)
            THEN eng'.pi >= eng.pi + 1
            ELSE eng'.pi = eng.pi + 1]_vars

\* force_drop() called in DROP once the first effect of the drop had run out
C29_DropForcedInDrop ==
    /\ lastOp = "force_drop"
    /\ eng.prev_section = "DROP"
    /\ eng.beat = 8
    /\ eng.pi >= 3

-----------------------------------------------------------------------------
(* Beat grid *)

\* C30: every on_beat, with or without preset, adds 1 to the beat counter; its
\* bar position is (beat - 1) mod 4, its downbeat flag is true exactly when the
\* bar position is 0, and its phrase flag is true exactly on beats 33, 65,
\* 97, ... (beat - 1 a positive multiple of 32).
C30_BeatGrid ==
    [][lastOp' = "on_beat" =>
         /\ eng'.beat = eng.beat + 1
         /\ seen'.bar_pos = (eng'.beat - 1) % 4
         /\ seen'.is_downbeat <=> seen'.bar_pos = 0
         /\ seen'.phrase <=> (eng'.beat > 1 /\ (eng'.beat - 1) % 32 = 0)]_vars

\* The third phrase boundary, under a preset
C30_ThirdPhrase ==
    /\ lastOp = "on_beat"
    /\ PresetOn(eng)
    /\ eng.beat = 97
    /\ seen.phrase
    /\ seen.is_downbeat

-----------------------------------------------------------------------------
(* The detectors *)

\* C31: on a beat with at least 16 beats of history drop-detected is true
\* exactly when the buildup, the pre-drop dip and the spike all hold and the
\* bass confirmation or a strong onset (onset EMA > 0.8) holds.
C31_DropConditions ==
    (lastOp = "on_beat" /\ eng.beat >= 16 /\ Len(eng.fast_hist) >= 16)
      => (eng.c_drop <=> /\ buildup(eng)
                         /\ predrop_dip(eng)
                         /\ spike(eng)
                         /\ (bass_ok(eng) \/ strong_hit(eng)))


\* C32: counted from a fresh or freshly reset engine, drop-detected is false
\* on each of the first 15 beats, build-detected on each of the first 11 and
\* breakdown-detected on each of the first 19, whatever the inputs; on an
\* empty history (the engine just reset) each detector returns false.
C32_ShortHistory ==
    /\ lastOp = "on_beat"
         => /\ eng.beat <= 15 => ~eng.c_drop
            /\ eng.beat <= 11 => ~eng.c_build
            /\ eng.beat <= 19 => ~eng.c_breakdown
            /\ Len(eng.fast_hist) = eng.beat
    /\ \A e \in {reset_music_context(eng)} :
         ~detect_drop(e) /\ ~detect_build(e) /\ ~detect_breakdown(e)

\* A build detected on the 12th beat after a reset in mid-track
C32_BuildOnTwelfthAfterReset ==
    /\ lastOp = "on_beat"
    /\ nOps = 1
    /\ nBeats > eng.beat
    /\ eng.beat = 12
    /\ eng.c_build

-----------------------------------------------------------------------------
(* Beats without a tempo estimate *)

\* C33: an accepted beat yields no estimate exactly when fewer than 6 beats
\* are buffered or fewer than 4 pairwise periods lie in the window; it then
\* leaves the lock and the deviation counter as they were when
\* _register_beat was entered, and its BeatEvent carries that lock.  Each of
\* the first 5 BeatEvents after a reset carries bpm = 0, and the first valid
\* estimate becomes the lock outright, the deviation counter at 0.
C33_NoEstimateKeepsLock ==
    [][(nIter' # nIter /\ out'.op = "frame" /\ out'.accepted) =>
         LET w == watchdog([det |-> det, last_energy_ts |-> last_energy_ts], now').det
             n == Len(det'.beats)
         IN  /\ out'.bpm_new = 0
                  <=> (n < 6 \/ Cardinality(DOMAIN per_beats(det'.beats)) < 4)
             /\ out'.bpm_new = 0
                  => /\ det'.bpm_stable = w.bpm_stable
                     /\ det'.deviation_beats = w.deviation_beats
                     /\ out'.event[1].bpm = w.bpm_stable
             /\ n <= 5 => out'.event[1].bpm = 0
             /\ (out'.bpm_new > 0 /\ w.bpm_stable = 0)
                  => /\ det'.bpm_stable = out'.bpm_new
                     /\ det'.deviation_beats = 0
                     /\ out'.event[1].bpm = out'.bpm_new]_vars

\* A beat without estimate under a lock: the buffer is long enough, but the
\* periods in the window have run out
C33_LockedWithoutEstimate ==
    /\ out.op = "frame"
    /\ out.accepted
    /\ out.bpm_new = 0
    /\ Len(det.beats) >= 6
    /\ det.bpm_stable > 0
    /\ out.event[1].bpm = det.bpm_stable

-----------------------------------------------------------------------------
(* The silence watchdog *)

\* Whether the watchdog at the top of the iteration now beginning resets
WatchdogResets ==
    watchdog([det |-> det, last_energy_ts |-> last_energy_ts], now').last_energy_ts = now'

\* C34: an iteration of the loop resets the analyzer state whenever no frame
\* with rms at or above 0.02 was processed during the last 1.6 s (and the
\* loop was not started or reset within them); it resets only then, so not
\* within 1.6 s of a frame with rms > 0.02 nor within 1.6 s of the last reset.
C34_SilenceWatchdog ==
    [][(nIter' # nIter /\ out'.op \in {"frame", "idle"}) =>
         (WatchdogResets <=> now' - last_energy_ts > SILENCE_RESET_MS)]_vars

-----------------------------------------------------------------------------
(* The manual tier *)

\* The automatic hysteresis state of _energy_tier
Hysteresis(e) == <<e.tier, e.tier_hold, e.tier_beats>>

\* C35: while a manual tier is set, every _energy_tier() call returns that
\* tier, and no on_beat changes the automatic tier, the hold counter or the
\* consecutive-beats counter; set_manual_tier leaves them alone as well, so the
\* classifier resumes from that state when the override is cleared.
C35_ManualTierFreezes ==
    [][/\ (lastOp' = "on_beat" /\ eng.manual_tier # NoTier)
            => /\ Hysteresis(eng') = Hysteresis(eng)
               /\ seen'.tier = eng.manual_tier
               /\ TierOf(energy_tier(eng')) = eng.manual_tier
               /\ energy_tier(eng') = eng'
       /\ lastOp' = "set_manual_tier" => Hysteresis(eng') = Hysteresis(eng)]_vars

\* A beat under the manual tier HIGH on which the automatic classifier, its
\* tier LOW and no hold running, would have escalated
C35_FrozenWhileLoud ==
    /\ lastOp = "on_beat"
    /\ eng.manual_tier = HIGH
    /\ seen.tier = HIGH
    /\ eng.tier = LOW
    /\ eng.tier_hold = 0
    /\ RawTier(eng) = HIGH

-----------------------------------------------------------------------------
(* BLACKOUT_BLAST *)

Blackout == <<Rgb("rgb_a", BLACK), Rgb("rgb_b", BLACK)>>

\* The calls are one rainbow-strobe animation to all targets
StrobeOnly(cs) ==
    /\ Len(cs) = 1
    /\ cs[1][1] = "set_mode"
    /\ cs[1][2] = MODE_STROBE_RAINBOW

\* C36: BLACKOUT_BLAST becomes the active effect with no beat executed (drawn
\* at the end of a beat or by force_drop) or, drawn by a section change of
\* on_beat, with that beat as its first; the first two beats it executes send
\* black to both outputs and nothing else, the third sends the rainbow strobe
\* to all targets and a 250 ms white flash, every later one the strobe alone.
C36_BlackoutBlast ==
    [][~PresetOn(eng) =>
         /\ (eng.effect # "BLACKOUT_BLAST" /\ eng'.effect = "BLACKOUT_BLAST")
              => IF lastOp' = "on_beat" /\ eng'.section_beats = 0
                 THEN eng'.fx_beat = 1 /\ calls' = Blackout
                 ELSE eng'.fx_beat = 0
         /\ (lastOp' = "on_beat" /\ eng.effect = "BLACKOUT_BLAST"
               /\ eng'.section = eng.section)
              => /\ eng'.effect = "BLACKOUT_BLAST" => eng'.fx_beat = eng.fx_beat + 1
                 /\ eng.fx_beat < 2 => calls' = Blackout
                 /\ eng.fx_beat = 2
                      => /\ Len(calls') = 2
                         /\ StrobeOnly(<<calls'[1]>>)
                         /\ calls'[2] = Flash(250)
                 /\ eng.fx_beat > 2 => StrobeOnly(calls')]_vars

\* The third beat of a BLACKOUT_BLAST drawn on a detected drop
C36_BlastOnThirdBeat ==
    /\ lastOp = "on_beat"
    /\ nOps = 0
    /\ eng.section = "DROP"
    /\ eng.section_beats = 2
    /\ eng.effect = "BLACKOUT_BLAST"
    /\ eng.fx_beat = 3
    /\ Len(calls) = 2
    /\ calls[2] = Flash(250)

-----------------------------------------------------------------------------
(* Animation speed *)

\* The speeds of the animation calls among cs
SpeedsOf(cs) ==
    {cs[i][3] : i \in {j \in DOMAIN cs : cs[j][1] \in {"set_mode", "mode_a", "mode_b"}}}

\* The intensities _execute_effect and _run_preset pass, in tenths
Intensities == {10, 12, 15, 18}

\* s is 600 / bpm / intensity rounded to a nearest integer and clamped to 2..100
RoundedAndClamped(s, bpm, intensity10) ==
    LET n == 600 * 100 * 10
        d == bpm * intensity10
    IN  /\ s \in 2..100
        /\ s > 2 => 2 * s * d <= 2 * n + d        \* s <= n/d + 1/2, or clamped up
        /\ s < 100 => 2 * n - d <= 2 * s * d      \* s >= n/d - 1/2, or clamped down

\* C37: speed_for_bpm is 20 for bpm <= 0 and otherwise 600 / bpm / intensity
\* rounded and clamped to 2..100; every animation speed on_beat sends to the
\* lighting sink lies in 2..100, whatever the bpm.
C37_SpeedRange ==
    /\ \A bpm \in BpmInputs : \A i \in Intensities :
         IF bpm <= 0 THEN speed_for_bpm(bpm, i) = 20
         ELSE RoundedAndClamped(speed_for_bpm(bpm, i), bpm, i)
    /\ \A s \in SpeedsOf(calls) : s \in 2..100

\* A beat of DROP_STROBE without tempo: the strobe is sent at speed 20
C37_StrobeWithoutTempo ==
    /\ lastOp = "on_beat"
    /\ ~PresetOn(eng)
    /\ eng.section = "DROP"
    /\ eng.bpm_hist = <<>>
    /\ SpeedsOf(calls) = {20}

-----------------------------------------------------------------------------
(* Onset strength *)

\* C38: an accepted beat leaves the peak at max(0.95 x the peak before, the
\* frame's rms), so not below that rms, and the onset strength at rms / peak
\* (here to a thousandth), within 0..1; the strength is 1 whenever the rms is
\* at least 0.95 x the peak before, as on the first accepted beat after a
\* reset; the BeatEvent carries that strength.
C38_OnsetStrength ==
    [][(nIter' # nIter /\ out'.op = "frame" /\ out'.accepted) =>
         LET before == watchdog([det |-> det, last_energy_ts |-> last_energy_ts],
                                now').det.rms_peak
             rms    == StepAt(prog').x.rms
             peak   == det'.rms_peak
             st     == det'.onset_strength
         IN  /\ peak = Max((95 * before) \div 100, rms)
             /\ peak >= rms
             /\ st \in 0..1000000
             /\ st < 1000000
                  => /\ (st \div 1000) * peak <= rms * 1000
                     /\ rms * 1000 < (st \div 1000 + 1) * peak
             /\ 100 * rms >= 95 * before => st = 1000000
             /\ (before = 0 /\ rms > 0) => st = 1000000
             /\ out'.event[1].onset_strength = st]_vars

\* A beat softer than the decayed peak: its strength is below 1
C38_SofterBeat ==
    /\ out.op = "frame"
    /\ out.accepted
    /\ det.rms_peak > StepAt(prog).x.rms
    /\ det.onset_strength > 0
    /\ det.onset_strength < 1000000
    /\ out.event[1].onset_strength = det.onset_strength

-----------------------------------------------------------------------------
(* Discards *)

\* C39: under every interleaving the callback discards a queued frame only
\* when the queue holds QUEUE_MAXSIZE frames at the moment of the discard, so
\* no frame is lost while the queue has free space.
C39_DiscardOnlyWhenFull ==
    [][Len(dropped') > Len(dropped) => Len(q) = QUEUE_MAXSIZE]_vars

-----------------------------------------------------------------------------
(* The breakdown flag *)

\* The engine with the other value of breakdown-detected
Flipped(e) == [e EXCEPT !.c_breakdown = ~@]

\* C40: the value of breakdown-detected has no influence on what the engine
\* does.  From every reachable engine and for every next beat: the value the
\* flag had before the beat is overwritten by the detectors, and with the
\* other value after the detectors the same draws are possible and each leads
\* to the same engine (all fields but the flag: section, tier state, effect)
\* and the same lighting-sink calls; force_build, force_drop and the reset do
\* not read it either.  Runs that differ in the flag alone so stay in step.
C40_BreakdownFlagInert ==
    /\ \A k \in DOMAIN BeatInputs :
         LET ev == BeatInputs[k]
             e1 == beat_front(eng, ev)
             f1 == Flipped(e1)
         IN  /\ beat_front(Flipped(eng), ev) = e1
             /\ Draws(f1) = Draws(e1)
             /\ \A rnd \in Draws(e1) :
                  /\ beat_back(f1, rnd) = Flipped(beat_back(e1, rnd))
                  /\ beat_back_calls(f1, ev, rnd) = beat_back_calls(e1, ev, rnd)
    /\ \A rnd \in 1..2 :
         /\ force_build(Flipped(eng), rnd) = Flipped(force_build(eng, rnd))
         /\ force_drop(Flipped(eng), rnd) = Flipped(force_drop(eng, rnd))
    /\ reset_music_context(Flipped(eng)) = reset_music_context(eng)

\* A beat on which the breakdown detector fired while the section stayed
C40_BreakdownDetectedUnused ==
    /\ lastOp = "on_beat"
    /\ ~PresetOn(eng)
    /\ eng.c_breakdown
    /\ eng.section # "BREAKDOWN"
    /\ eng.section_beats > 0
=============================================================================
